---- MODULE Spec2Model ----
(***************************************************************************)
(* ydiff: the diff-stream parser (DiffParser.get_diff_generator), the      *)
(* line predicates of UnifiedDiff, Hunk, and the format sniffer of         *)
(* DiffParser.__init__.                                                    *)
(*                                                                         *)
(* A line of text is a sequence of one-character strings, so that          *)
(* startswith, find, split, rstrip, int and line[0] / line[1:] are         *)
(* computed on the characters as Python computes them.                     *)
(***************************************************************************)
EXTENDS Integers, Sequences, FiniteSets, TLC

(***************************************************************************)
(* Bounds of the model.                                                    *)
(***************************************************************************)
\* longest input stream fed to the parser under Spec
MaxLen == 5
\* longest input stream fed to the parser under SpecMeta
MaxLenMeta == 4
\* longest well-formed input stream fed to the parser under SpecWF
MaxLenWF == 9

(***************************************************************************)
(* Python values.                                                          *)
(***************************************************************************)
\* Python's None, kept apart from the empty string <<>>
None == <<"None">>

\* truth value of a str-or-None (None and '' are false)
Truthy(s) == s # None /\ s # <<>>

Whitespace == {" ", "\n", "\t", "\r"}

Digits == {"0", "1", "2", "3", "4", "5", "6", "7", "8", "9"}

DigitVal(c) ==
    CASE c = "0" -> 0 [] c = "1" -> 1 [] c = "2" -> 2 [] c = "3" -> 3
      [] c = "4" -> 4 [] c = "5" -> 5 [] c = "6" -> 6 [] c = "7" -> 7
      [] c = "8" -> 8 [] c = "9" -> 9

\* s[i:] with a 0-based index, as Python slices
Slice(s, i) == IF i >= Len(s) THEN <<>> ELSE SubSeq(s, i + 1, Len(s))

\* str.startswith
StartsWith(s, p) == Len(s) >= Len(p) /\ SubSeq(s, 1, Len(p)) = p

\* str.endswith
EndsWith(s, p) ==
    Len(s) >= Len(p) /\ SubSeq(s, Len(s) - Len(p) + 1, Len(s)) = p

\* str.find: 0-based index of the first occurrence, -1 when there is none
Find(s, p) ==
    LET hits == {i \in 0..(Len(s) - Len(p)) : SubSeq(s, i + 1, i + Len(p)) = p}
    IN  IF hits = {} THEN -1 ELSE CHOOSE i \in hits : \A j \in hits : i <= j

\* str.rstrip(): drop trailing whitespace
RECURSIVE RStrip(_)
RStrip(s) ==
    IF s # <<>> /\ s[Len(s)] \in Whitespace
    THEN RStrip(SubSeq(s, 1, Len(s) - 1))
    ELSE s

\* str.split(): the maximal runs of non-whitespace characters
RECURSIVE SplitWs(_, _, _)
SplitWs(s, cur, acc) ==
    IF s = <<>>
    THEN IF cur = <<>> THEN acc ELSE Append(acc, cur)
    ELSE IF Head(s) \in Whitespace
         THEN SplitWs(Tail(s), <<>>, IF cur = <<>> THEN acc ELSE Append(acc, cur))
         ELSE SplitWs(Tail(s), Append(cur, Head(s)), acc)

Split(s) == SplitWs(s, <<>>, <<>>)

\* str.split(','): empty fields are kept
RECURSIVE SplitSep(_, _, _, _)
SplitSep(s, sep, cur, acc) ==
    IF s = <<>>
    THEN Append(acc, cur)
    ELSE IF Head(s) = sep
         THEN SplitSep(Tail(s), sep, <<>>, Append(acc, cur))
         ELSE SplitSep(Tail(s), sep, Append(cur, Head(s)), acc)

SplitComma(s) == SplitSep(s, ",", <<>>, <<>>)

RECURSIVE DecVal(_, _)
DecVal(s, acc) ==
    IF s = <<>> THEN acc ELSE DecVal(Tail(s), 10 * acc + DigitVal(Head(s)))

\* int(s): an optional sign and at least one decimal digit, else ValueError.
\* (int() also allows blanks around the number and '_' between digits;
\* neither can reach it here: split() removed the blanks and no line of the
\* model holds a '_'.)
IntOk(s) ==
    LET body == IF s # <<>> /\ s[1] \in {"+", "-"} THEN Tail(s) ELSE s
    IN  body # <<>> /\ \A i \in 1..Len(body) : body[i] \in Digits

IntVal(s) ==
    IF s[1] = "-" THEN 0 - DecVal(Tail(s), 0)
    ELSE IF s[1] = "+" THEN DecVal(Tail(s), 0)
    ELSE DecVal(s, 0)

(***************************************************************************)
(* Literal texts of the program.                                           *)
(***************************************************************************)
OldPathPrefix == <<"-", "-", "-", " ">>
NewPathPrefix == <<"+", "+", "+", " ">>
MetaPrefix == <<"@", "@", " ", "-">>
MetaSuffix == <<" ", "@", "@">>
PropMetaPrefix == <<"#", "#", " ", "-">>
PropMetaSuffix == <<" ", "#", "#">>
EofPrefix == <<"\\", " ", "N", "o", " ", "n", "e", "w", "l", "i", "n", "e",
               " ", "a", "t", " ", "e", "n", "d", " ", "o", "f">>
OnlyInPrefix == <<"O", "n", "l", "y", " ", "i", "n", " ">>
BinaryPrefix == <<"B", "i", "n", "a", "r", "y", " ", "f", "i", "l", "e", "s", " ">>
BinarySuffix == <<" ", "d", "i", "f", "f", "e", "r">>
ContextStars == <<"*", "*", "*", " ">>
ContextSeparator == <<"*", "*", "*", "*", "*", "*", "*", "*", "*", "*",
                      "*", "*", "*", "*", "*">>
ContextTail == <<" ", "*", "*", "*", "*">>
InvalidHunkMeta == <<"i", "n", "v", "a", "l", "i", "d", " ", "h", "u", "n", "k",
                     " ", "m", "e", "t", "a", ":", " ">>

\* the least index str.find must return in is_hunk_meta
MetaMinFind == 8
\* the length of the svn log separator line excluded by is_old
SvnSeparatorLen == 72
\* the number of lines DiffParser.__init__ reads ahead
StreamHeaderSize == 100

(***************************************************************************)
(* class UnifiedDiff: the line predicates.                                 *)
(***************************************************************************)
is_old_path(line) == StartsWith(line, OldPathPrefix)

is_new_path(line) == StartsWith(line, NewPathPrefix)

is_hunk_meta(line) ==
    \/ StartsWith(line, MetaPrefix) /\ Find(line, MetaSuffix) >= MetaMinFind
    \/ StartsWith(line, PropMetaPrefix) /\ Find(line, PropMetaSuffix) >= MetaMinFind

\* re.match(r'^-{72}$', line.rstrip())
IsSvnSeparator(line) ==
    LET s == RStrip(line)
    IN  Len(s) = SvnSeparatorLen /\ \A i \in 1..Len(s) : s[i] = "-"

\* is_old without the exclusion of the svn log separator line
is_old_NoSeparator(line) ==
    StartsWith(line, <<"-">>) /\ ~is_old_path(line)

is_old(line) ==
    StartsWith(line, <<"-">>) /\ ~is_old_path(line) /\ ~IsSvnSeparator(line)

is_new(line) == StartsWith(line, <<"+">>) /\ ~is_new_path(line)

is_common(line) == StartsWith(line, <<" ">>)

\* is_eof knowing the marker of a property only
is_eof_PropertyOnly(line) ==
    StartsWith(line, EofPrefix \o <<" ", "p", "r", "o", "p", "e", "r", "t", "y">>)

is_eof(line) == StartsWith(line, EofPrefix)

is_only_in_dir(line) == StartsWith(line, OnlyInPrefix)

\* is_binary_differ matching the line with its line end
is_binary_differ_NoStrip(line) ==
    /\ StartsWith(line, BinaryPrefix)
    /\ EndsWith(line, BinarySuffix)
    /\ Len(line) >= Len(BinaryPrefix) + Len(BinarySuffix)

\* re.match('^Binary files .* differ$', line.rstrip())
is_binary_differ(line) ==
    LET s == RStrip(line)
    IN  /\ StartsWith(s, BinaryPrefix)
        /\ EndsWith(s, BinarySuffix)
        /\ Len(s) >= Len(BinaryPrefix) + Len(BinarySuffix)

\* parse_hunk_line that leaves the tag in the text
parse_hunk_line_KeepTag(line) == <<line[1], line>>

\* (line[0], line[1:])
parse_hunk_line(line) == <<line[1], Slice(line, 1)>>

\* ParseAddr taking a count that is no number for the default count
ParseAddr_LenientCount(tokens, k) ==
    IF Len(tokens) < k + 1
    THEN [ok |-> FALSE, addr |-> <<0, 0>>]
    ELSE LET a == SplitComma(tokens[k + 1])
             start == Slice(a[1], 1)
         IN  IF ~IntOk(start)
             THEN [ok |-> FALSE, addr |-> <<0, 0>>]
             ELSE IF Len(a) > 1 /\ IntOk(a[2])
                  THEN [ok |-> TRUE, addr |-> <<IntVal(start), IntVal(a[2])>>]
                  ELSE [ok |-> TRUE, addr |-> <<IntVal(start), 1>>]

\* ParseAddr with a default count of 0
ParseAddr_DefaultZero(tokens, k) ==
    IF Len(tokens) < k + 1
    THEN [ok |-> FALSE, addr |-> <<0, 0>>]
    ELSE LET a == SplitComma(tokens[k + 1])
             start == Slice(a[1], 1)
         IN  IF Len(a) > 1
             THEN IF IntOk(start) /\ IntOk(a[2])
                  THEN [ok |-> TRUE, addr |-> <<IntVal(start), IntVal(a[2])>>]
                  ELSE [ok |-> FALSE, addr |-> <<0, 0>>]
             ELSE IF IntOk(start)
                  THEN [ok |-> TRUE, addr |-> <<IntVal(start), 0>>]
                  ELSE [ok |-> FALSE, addr |-> <<0, 0>>]

\* One address of a hunk meta: the token's ','-separated fields, the first
\* without its leading character; a missing second field counts as 1.
\* ok is FALSE where Python raises IndexError or ValueError.
ParseAddr(tokens, k) ==
    IF Len(tokens) < k + 1
    THEN [ok |-> FALSE, addr |-> <<0, 0>>]
    ELSE LET a == SplitComma(tokens[k + 1])
             start == Slice(a[1], 1)
         IN  IF Len(a) > 1
             THEN IF IntOk(start) /\ IntOk(a[2])
                  THEN [ok |-> TRUE, addr |-> <<IntVal(start), IntVal(a[2])>>]
                  ELSE [ok |-> FALSE, addr |-> <<0, 0>>]
             ELSE IF IntOk(start)
                  THEN [ok |-> TRUE, addr |-> <<IntVal(start), 1>>]
                  ELSE [ok |-> FALSE, addr |-> <<0, 0>>]

parse_hunk_meta(hunk_meta) ==
    LET tokens == Split(hunk_meta)
        o == ParseAddr(tokens, 1)
        n == ParseAddr(tokens, 2)
    IN  [ok |-> o.ok /\ n.ok, old_addr |-> o.addr, new_addr |-> n.addr]

(***************************************************************************)
(* class Hunk.                                                             *)
(***************************************************************************)
Hunk(hunk_headers, hunk_meta, old_addr, new_addr) ==
    [hunk_headers |-> hunk_headers, hunk_meta |-> hunk_meta,
     old_addr |-> old_addr, new_addr |-> new_addr, hunk_list |-> <<>>]

_get_old_text(hunk) ==
    SelectSeq(hunk.hunk_list, LAMBDA hl : hl[1] # "+")

_get_new_text(hunk) ==
    SelectSeq(hunk.hunk_list, LAMBDA hl : hl[1] # "-")

\* is_completed looking at the old side only
is_completed_OldOnly(hunk) ==
    hunk.old_addr[2] = Len(_get_old_text(hunk))

is_completed(hunk) ==
    /\ hunk.old_addr[2] = Len(_get_old_text(hunk))
    /\ hunk.new_addr[2] = Len(_get_new_text(hunk))

\* Hunk.append on the last hunk of a hunk list: diff._hunks[-1].append(...)
AppendToLast(hunks, hunk_line) ==
    [hunks EXCEPT ![Len(hunks)].hunk_list = Append(@, hunk_line)]

UnifiedDiff(hdrs, old_path, new_path, hunks) ==
    [headers |-> hdrs, old_path |-> old_path, new_path |-> new_path,
     hunks |-> hunks]

\* the fully-formed test without the test for hunks
FullyFormed_NoHunks(d) == Truthy(d.old_path) /\ Truthy(d.new_path)

\* "diff._old_path and diff._new_path and diff._hunks"
FullyFormed(d) == Truthy(d.old_path) /\ Truthy(d.new_path) /\ d.hunks # <<>>

(***************************************************************************)
(* DiffParser.__init__: the format sniffer over the look-ahead lines.      *)
(***************************************************************************)
\* PatchStream.read_stream_header(n) on a stream: its first n lines
read_stream_header(stream, n) ==
    SubSeq(stream, 1, IF Len(stream) < n THEN Len(stream) ELSE n)

IsContextHeader(header) ==
    /\ Len(header) >= 4
    /\ StartsWith(header[1], ContextStars)
    /\ StartsWith(header[2], OldPathPrefix)
    /\ RStrip(header[3]) = ContextSeparator
    /\ StartsWith(header[4], ContextStars)
    /\ EndsWith(RStrip(header[4]), ContextTail)

\* the "for n in range(size)" loop: some line n is an old path and line n + 1
\* a new path
HasPathPair(header) ==
    \E n \in 1..Len(header) :
        /\ StartsWith(header[n], OldPathPrefix)
        /\ n < Len(header)
        /\ StartsWith(header[n + 1], NewPathPrefix)

\* what __init__ decides: _type, and whether the unknown-format warning is
\* written
DetectFormat(stream) ==
    LET header == read_stream_header(stream, StreamHeaderSize)
    IN  IF IsContextHeader(header) THEN [type |-> "context", warned |-> FALSE]
        ELSE IF HasPathPair(header) THEN [type |-> "unified", warned |-> FALSE]
        ELSE [type |-> "unified", warned |-> TRUE]

(***************************************************************************)
(* COLORS, colorize, strsplit, strtrim.  The character '\x1b' is written   *)
(* "ESC".                                                                  *)
(***************************************************************************)
\* '\x1b[' + digits + 'm'
Sgr(digits) == <<"ESC", "[">> \o digits \o <<"m">>

\* the table COLORS, in the order of the dict
COLORS ==
    <<[name |-> "reset", code |-> Sgr(<<"0">>)],
      [name |-> "underline", code |-> Sgr(<<"4">>)],
      [name |-> "reverse", code |-> Sgr(<<"7">>)],
      [name |-> "red", code |-> Sgr(<<"3", "1">>)],
      [name |-> "green", code |-> Sgr(<<"3", "2">>)],
      [name |-> "yellow", code |-> Sgr(<<"3", "3">>)],
      [name |-> "blue", code |-> Sgr(<<"3", "4">>)],
      [name |-> "magenta", code |-> Sgr(<<"3", "5">>)],
      [name |-> "cyan", code |-> Sgr(<<"3", "6">>)],
      [name |-> "lightred", code |-> Sgr(<<"1", ";", "3", "1">>)],
      [name |-> "lightgreen", code |-> Sgr(<<"1", ";", "3", "2">>)],
      [name |-> "lightyellow", code |-> Sgr(<<"1", ";", "3", "3">>)],
      [name |-> "lightblue", code |-> Sgr(<<"1", ";", "3", "4">>)],
      [name |-> "lightmagenta", code |-> Sgr(<<"1", ";", "3", "5">>)],
      [name |-> "lightcyan", code |-> Sgr(<<"1", ";", "3", "6">>)]>>

\* COLORS[name]
Color(name) ==
    COLORS[CHOOSE i \in 1..Len(COLORS) : COLORS[i].name = name].code

\* colorize(text, start_color, end_color='reset')
colorize(text, start_color) == Color(start_color) \o text \o Color("reset")

\* the color search of strsplit knowing no color but reset
FirstColor_ResetOnly(text) ==
    IF StartsWith(text, Color("reset")) THEN 1 ELSE 0

\* "for color in COLORS: if text.startswith(COLORS[color]): ... break": the
\* index of the first color whose code starts the text, 0 when there is none
FirstColor(text) ==
    LET hits == {i \in 1..Len(COLORS) : StartsWith(text, COLORS[i].code)}
    IN  IF hits = {} THEN 0 ELSE CHOOSE i \in hits : \A j \in hits : i <= j

\* the while loop of strsplit
RECURSIVE StrsplitLoop(_, _, _, _, _)
StrsplitLoop(text, width, first, found_colors, chars_cnt) ==
    IF text = <<>>
    THEN [first |-> first, text |-> text, found_colors |-> found_colors,
          chars_cnt |-> chars_cnt]
    ELSE LET c == FirstColor(text)
         IN  IF c # 0
             THEN StrsplitLoop(Slice(text, Len(COLORS[c].code)), width,
                               first \o COLORS[c].code,
                               IF COLORS[c].name = "reset" THEN <<>>
                               ELSE Append(found_colors, COLORS[c].name),
                               chars_cnt)
             ELSE IF chars_cnt >= width
                  THEN [first |-> first, text |-> text,
                        found_colors |-> found_colors, chars_cnt |-> chars_cnt]
                  ELSE StrsplitLoop(Tail(text), width, Append(first, Head(text)),
                                    found_colors, chars_cnt + 1)

\* "for color in found_colors: second = COLORS[color] + second"
RECURSIVE Reopen(_, _)
Reopen(found_colors, second) ==
    IF found_colors = <<>> THEN second
    ELSE Reopen(Tail(found_colors), Color(Head(found_colors)) \o second)

\* strsplit(text, width) = (first, second, chars_cnt)
strsplit(text, width) ==
    LET r == StrsplitLoop(text, width, <<>>, <<>>, 0)
    IN  IF r.found_colors # <<>>
        THEN <<r.first \o Color("reset"), Reopen(r.found_colors, r.text),
               r.chars_cnt>>
        ELSE <<r.first, r.text, r.chars_cnt>>

\* n spaces: '%*s' % (n, '')
Spaces(n) == [i \in 1..n |-> " "]

\* strtrim cutting a long text at width visible characters
strtrim_KeepWidth(text, width, wrap_char, pad) ==
    LET s == strsplit(text, width + 1)
    IN  IF s[3] > width THEN strsplit(s[1], width)[1] \o wrap_char
        ELSE IF pad THEN s[1] \o Spaces(width - s[3])
        ELSE s[1]

\* strtrim(text, width, wrap_char, pad)
strtrim(text, width, wrap_char, pad) ==
    LET s == strsplit(text, width + 1)
    IN  IF s[3] > width THEN strsplit(s[1], width - 1)[1] \o wrap_char
        ELSE IF pad THEN s[1] \o Spaces(width - s[3])
        ELSE s[1]

(***************************************************************************)
(* class DiffMarker: the pieces of _markup_side_by_side.  The characters   *)
(* '\x00' and '\x01' of difflib's markers are written "NUL" and "SOH".     *)
(***************************************************************************)
\* str.replace(c, by) for a one-character c
RECURSIVE ReplaceChar(_, _, _)
ReplaceChar(s, c, by) ==
    IF s = <<>> THEN <<>>
    ELSE (IF Head(s) = c THEN by ELSE <<Head(s)>>) \o ReplaceChar(Tail(s), c, by)

\* _normalize(line) for the tab width tw
_normalize(line, tw) ==
    ReplaceChar(ReplaceChar(ReplaceChar(line, "\t", Spaces(tw)), "\n", <<>>),
                "\r", <<>>)

\* str.rstrip('\x01')
RECURSIVE RStripSoh(_)
RStripSoh(s) ==
    IF s # <<>> /\ s[Len(s)] = "SOH" THEN RStripSoh(SubSeq(s, 1, Len(s) - 1))
    ELSE s

\* "if s.startswith(tag): s = s[2:]" for a two-character tag
DropTag(s, tag) == IF StartsWith(s, tag) THEN Slice(s, 2) ELSE s

\* the while loop of _fit_with_marker_mix
RECURSIVE FitLoop(_, _)
FitLoop(s, base_color) ==
    IF s = <<>> THEN <<>>
    ELSE IF StartsWith(s, <<"NUL", "-">>) \/ StartsWith(s, <<"NUL", "+">>)
         THEN Color("reverse") \o Color(base_color) \o FitLoop(Slice(s, 2), base_color)
    ELSE IF StartsWith(s, <<"NUL", "^">>)
         THEN Color("underline") \o Color(base_color) \o FitLoop(Slice(s, 2), base_color)
    ELSE IF StartsWith(s, <<"SOH">>)
         THEN (IF Len(s) > 1 THEN Color("reset") \o Color(base_color) ELSE <<>>)
                  \o FitLoop(Tail(s), base_color)
    ELSE <<Head(s)>> \o FitLoop(Tail(s), base_color)

_fit_with_marker_mix(s, base_color) ==
    Color(base_color) \o FitLoop(s, base_color) \o Color("reset")

_markup_common(line) == colorize(line, "reset")

_markup_old(line) == colorize(line, "lightred")

_markup_new(line) == colorize(line, "green")

\* the truncation marker: colorize('>', 'lightmagenta')
WrapChar == colorize(<<">">>, "lightmagenta")

\* the digits of a natural number
RECURSIVE NatStr(_)
NatStr(n) ==
    LET d == <<"0", "1", "2", "3", "4", "5", "6", "7", "8", "9">>[(n % 10) + 1]
    IN  IF n < 10 THEN <<d>> ELSE Append(NatStr(n \div 10), d)

\* str(n) for an int
Str(n) == IF n < 0 THEN <<"-">> \o NatStr(0 - n) ELSE NatStr(n)

\* '%*s' % (n, s): s, with spaces before it up to n characters
RJust(s, n) == IF Len(s) >= n THEN s ELSE Spaces(n - Len(s)) \o s

\* "Set up number width": num_width from diff._hunks[-1], 0 and 0 for the
\* maxima when there is no hunk (IndexError)
NumWidth(hunks) ==
    LET max1 == IF hunks = <<>> THEN 0
                ELSE hunks[Len(hunks)].old_addr[1] + hunks[Len(hunks)].old_addr[2] - 1
        max2 == IF hunks = <<>> THEN 0
                ELSE hunks[Len(hunks)].new_addr[1] + hunks[Len(hunks)].new_addr[2] - 1
        l1 == Len(Str(max1))
        l2 == Len(Str(max2))
    IN  IF l1 > l2 THEN l1 ELSE l2

\* left_num / right_num of a row: the line number shown for the mdiff line
\* number num of a side whose hunk address is addr, ' ' when num is false
\* (difflib gives '' for the side a row does not have, written 0 here)
RowNum(addr, num) ==
    IF num = 0 THEN <<" ">> ELSE Str(addr[1] + num - 1)

\* line_fmt % {...}: the four fields of an output line, the numbers
\* right-justified in num_width columns (the text between the fields is the
\* same on every line)
line_fmt(nw, left_num, left_cell, right_num, right_cell) ==
    [left_num |-> RJust(left_num, nw), left |-> left_cell,
     right_num |-> RJust(right_num, nw), right |-> right_cell]

\* the two cells of a row (old, new, changed) before they are wrapped or
\* trimmed: lines 634-655
Cells(row, tw) ==
    LET l == _normalize(row.old[2], tw)
        r == _normalize(row.new[2], tw)
    IN  IF row.changed
        THEN IF row.old[1] = 0
             THEN <<<<>>, _markup_new(DropTag(RStripSoh(r), <<"NUL", "+">>))>>
             ELSE IF row.new[1] = 0
                  THEN <<_markup_old(DropTag(RStripSoh(l), <<"NUL", "-">>)), <<>>>>
                  ELSE <<_fit_with_marker_mix(l, "red"),
                         _fit_with_marker_mix(r, "green")>>
        ELSE <<_markup_common(l), _markup_common(r)>>

(***************************************************************************)
(* The input lines the model feeds to the parser.                          *)
(***************************************************************************)
L_OldPath == <<"-", "-", "-", " ", "a", "\n">>
L_NewPath == <<"+", "+", "+", " ", "b", "\n">>
L_Meta == <<"@", "@", " ", "-", "1", " ", "+", "1", " ", "@", "@", "\n">>
L_MetaBad == <<"@", "@", " ", "-", "x", " ", "+", "1", " ", "@", "@", "\n">>
L_Del == <<"-", "x", "\n">>
L_Add == <<"+", "y", "\n">>
L_Ctx == <<" ", "z", "\n">>
L_Eof == <<"\\", " ", "N", "o", " ", "n", "e", "w", "l", "i", "n", "e", " ",
           "a", "t", " ", "e", "n", "d", " ", "o", "f", " ", "f", "i", "l",
           "e", "\n">>
L_OnlyIn == <<"O", "n", "l", "y", " ", "i", "n", " ", "d", "\n">>
L_Binary == <<"B", "i", "n", "a", "r", "y", " ", "f", "i", "l", "e", "s", " ",
              "a", " ", "a", "n", "d", " ", "b", " ", "d", "i", "f", "f", "e",
              "r", "\n">>
L_Dash72 == [i \in 1..SvnSeparatorLen |-> "-"] \o <<"\n">>
L_Hdr == <<"d", "i", "f", "f", "\n">>

M_Full == <<"@", "@", " ", "-", "1", "0", ",", "2", " ", "+", "3", ",", "1", "4",
            " ", "@", "@", " ", "f", "\n">>
M_ShortOld == <<"@", "@", " ", "-", "1", " ", "+", "3", ",", "4", " ", "@", "@", "\n">>
M_ShortNew == <<"@", "@", " ", "-", "1", ",", "2", " ", "+", "3", " ", "@", "@", "\n">>
M_Prop == <<"#", "#", " ", "-", "0", ",", "0", " ", "+", "1", " ", "#", "#", "\n">>
M_BadCount == <<"@", "@", " ", "-", "1", ",", " ", "+", "1", " ", "@", "@", "\n">>

\* the lines of Spec
Lines ==
    {L_OldPath, L_NewPath, L_Meta, L_MetaBad, L_Del, L_Add, L_Ctx, L_Eof,
     L_OnlyIn, L_Dash72, L_Hdr}

\* the lines of SpecMeta: the forms of hunk meta and both standalone markers
MetaLines ==
    {L_OldPath, L_NewPath, L_Meta, M_Full, M_ShortOld, M_ShortNew, M_Prop,
     L_MetaBad, M_BadCount, L_Add, L_OnlyIn, L_Binary, L_Hdr}

(***************************************************************************)
(* Well-formed unified-diff input: per file optional header lines, a       *)
(* "--- " line, a "+++ " line, then hunks of at least one body line whose  *)
(* body lines match the declared counts, with optional end-of-file markers *)
(* ("\ No newline at end of ...") after body lines.  WFRun reads a stream  *)
(* as this grammar does; SpecWF feeds the parser the streams of WFLines    *)
(* the grammar accepts.                                                    *)
(***************************************************************************)
\* the lines of SpecWF
WFLines ==
    {L_Hdr, L_OldPath, L_NewPath, L_Meta, M_Prop, L_Del, L_Add, L_Ctx,
     L_Eof, L_Dash72}

\* the lines of WFLines a file's header may hold
WFHeaders == {L_Hdr, L_Ctx}

\* ph: where the grammar stands ("head": in a file's headers, "old": after
\* the "--- " line, "new": after the "+++ " line, "body": in a hunk that
\* still lacks lines, "between": after a complete hunk); o, n: the old and
\* new lines the hunk still lacks; any: the hunk has a body line;
\* plain: so far no end-of-file marker, no header line starting with "-",
\* "+" or " ", and no svn separator line as a body line
WFStart == [ph |-> "head", o |-> 0, n |-> 0, any |-> FALSE, plain |-> TRUE]

WFBad == [ph |-> "bad", o |-> 0, n |-> 0, any |-> FALSE, plain |-> FALSE]

WFOpenHunk(st, line) ==
    LET m == parse_hunk_meta(line)
        zero == m.old_addr[2] = 0 /\ m.new_addr[2] = 0
    IN  IF ~m.ok \/ zero THEN WFBad
        ELSE [ph |-> "body", o |-> m.old_addr[2], n |-> m.new_addr[2],
              any |-> FALSE, plain |-> st.plain]

WFBody(st, line) ==
    LET tag == line[1]
        o2 == IF tag \in {"-", " "} THEN st.o - 1 ELSE st.o
        n2 == IF tag \in {"+", " "} THEN st.n - 1 ELSE st.n
    IN  IF tag \notin {"-", "+", " "} \/ o2 < 0 \/ n2 < 0 THEN WFBad
        ELSE [ph |-> IF o2 = 0 /\ n2 = 0 THEN "between" ELSE "body",
              o |-> o2, n |-> n2, any |-> TRUE,
              plain |-> st.plain /\ ~IsSvnSeparator(line)]

WFHeader(st, line) ==
    [ph |-> "head", o |-> 0, n |-> 0, any |-> FALSE,
     plain |-> st.plain /\ line[1] \notin {"-", "+", " "}]

WFStep(st, line) ==
    IF st.ph = "head" THEN
        IF is_old_path(line) THEN [st EXCEPT !.ph = "old"]
        ELSE IF line \in WFHeaders THEN WFHeader(st, line)
        ELSE WFBad
    ELSE IF st.ph = "old" THEN
        IF is_new_path(line) THEN [st EXCEPT !.ph = "new"] ELSE WFBad
    ELSE IF st.ph = "new" THEN
        IF is_hunk_meta(line) THEN WFOpenHunk(st, line) ELSE WFBad
    ELSE IF st.ph = "body" THEN
        IF is_eof(line)
        THEN IF st.any THEN [st EXCEPT !.plain = FALSE] ELSE WFBad
        ELSE WFBody(st, line)
    ELSE IF st.ph = "between" THEN
        IF is_eof(line)
        THEN IF st.any THEN [st EXCEPT !.plain = FALSE] ELSE WFBad
        ELSE IF is_hunk_meta(line) THEN WFOpenHunk(st, line)
        ELSE IF is_old_path(line) THEN [st EXCEPT !.ph = "old"]
        ELSE IF line \in WFHeaders THEN WFHeader(st, line)
        ELSE WFBad
    ELSE WFBad

RECURSIVE WFRun(_)
WFRun(stream) ==
    IF stream = <<>> THEN WFStart
    ELSE WFStep(WFRun(SubSeq(stream, 1, Len(stream) - 1)), stream[Len(stream)])

\* the stream is a well-formed unified diff
WellFormed(stream) == WFRun(stream).ph = "between"

\* a well-formed unified diff without end-of-file markers, whose header lines
\* start with none of "-", "+", " " and whose body lines are not svn
\* separator lines
WellFormedPlain(stream) == WellFormed(stream) /\ WFRun(stream).plain

(***************************************************************************)
(* class PatchStream and DiffParser.__init__: the state of one stream      *)
(* object and of the parser built on it.                                   *)
(***************************************************************************)
VARIABLES
    source,             \* all the lines the underlying handle holds at first
    diff_hdl,           \* _diff_hdl: the lines the handle has not delivered yet
    stream_header,      \* _stream_header
    stream_header_size, \* _stream_header_size
    is_empty,           \* _is_empty
    ahead,              \* the argument of read_stream_header, -1 before a call
    ptype,              \* DiffParser._type, "none" before DiffParser.__init__
    warned,             \* the unknown-format warning was written to stderr
    translator,         \* the filterdiff process was started
    spc,                \* where the stream object is in its life
    yielded             \* the lines PatchStream.__iter__ has yielded, in order

streamVars ==
    <<source, diff_hdl, stream_header, stream_header_size, is_empty, ahead,
      ptype, warned, translator, spc, yielded>>

\* no stream object exists
StreamIdle ==
    /\ source = <<>>
    /\ diff_hdl = <<>>
    /\ stream_header = <<>>
    /\ stream_header_size = 0
    /\ is_empty = FALSE
    /\ ahead = -1
    /\ ptype = "none"
    /\ warned = FALSE
    /\ translator = FALSE
    /\ spc = "idle"
    /\ yielded = <<>>

(***************************************************************************)
(* class PatchStreamForwarder, the filter process and the two pipes        *)
(* between them.                                                           *)
(***************************************************************************)
VARIABLES
    istream,    \* _istream: the upstream lines not taken yet
    in_pipe,    \* the lines in the pipe to the filter's stdin
    in_closed,  \* _in.closed
    in_hand,    \* the line _in.write is writing while it blocks, <<>> if none
    out_pipe,   \* the lines in the pipe from the filter's stdout
    out_closed, \* the filter closed its stdout
    fpc,        \* the forwarder: "poll", "write" (inside _in.write), "done"
    forwarded,  \* the lines the forwarder has yielded, in order
    held,       \* the lines the filter has read and not yet put out
    filter,     \* the filter: "run", "write" (inside a write), "exit"
    cap_in,     \* capacity of the pipe to the filter, in lines
    cap_out,    \* capacity of the pipe from the filter, in lines
    lastop,     \* what the latest loop iteration found and did
    pipelog     \* the upstream lines, the lines passed to self._in.write, the
                \* calls of self._in.close, the lines the filter wrote

bridgeVars ==
    <<istream, in_pipe, in_closed, in_hand, out_pipe, out_closed, fpc, forwarded,
      held, filter, cap_in, cap_out, lastop, pipelog>>

\* no forwarder exists
BridgeIdle ==
    /\ istream = <<>>
    /\ in_pipe = <<>>
    /\ in_closed = FALSE
    /\ in_hand = <<>>
    /\ out_pipe = <<>>
    /\ out_closed = FALSE
    /\ fpc = "idle"
    /\ forwarded = <<>>
    /\ held = <<>>
    /\ filter = "idle"
    /\ cap_in = 0
    /\ cap_out = 0
    /\ lastop = [ready |-> FALSE, did |-> "none"]
    /\ pipelog = [upstream |-> <<>>, written |-> <<>>, closes |-> 0, produced |-> <<>>]

(***************************************************************************)
(* One call of strsplit.                                                   *)
(***************************************************************************)
VARIABLES
    split_text,     \* the argument text
    split_width,    \* the argument width
    split           \* the 3-tuple returned, <<>> before the call returns

textVars == <<split_text, split_width, split>>

\* no call of strsplit is under way
TextIdle == split_text = <<>> /\ split_width = 0 /\ split = <<>>

(***************************************************************************)
(* DiffMarker._markup_side_by_side rendering one row of a Diff.            *)
(***************************************************************************)
VARIABLES
    sbs_hunks,  \* diff._hunks
    num_width,  \* num_width, 0 before it is set up
    col_width,  \* width
    wrap,       \* self._wrap
    sbs_row,    \* the (old, new, changed) of the row, of the hunk hunk_at
    hunk_at,    \* the index in diff._hunks of the hunk of the row
    left,       \* left
    right,      \* right
    lncur,      \* lncur
    rncur,      \* rncur
    out_lines,  \* the output lines yielded for the row, in order
    mpc         \* "setup", "rows", "wrap" (in the while loop), "rowdone"

sideVars ==
    <<sbs_hunks, num_width, col_width, wrap, sbs_row, hunk_at, left, right, lncur,
      rncur, out_lines, mpc>>

\* the row before a row is taken
NoRow == [old |-> <<0, <<>>>>, new |-> <<0, <<>>>>, changed |-> FALSE]

\* no Diff is being rendered
SideIdle ==
    /\ sbs_hunks = <<>>
    /\ num_width = 0
    /\ col_width = 0
    /\ wrap = FALSE
    /\ sbs_row = NoRow
    /\ hunk_at = 0
    /\ left = <<>>
    /\ right = <<>>
    /\ lncur = <<>>
    /\ rncur = <<>>
    /\ out_lines = <<>>
    /\ mpc = "idle"

(***************************************************************************)
(* DiffParser.get_diff_generator on objects: the lists, Hunks and          *)
(* UnifiedDiffs it allocates, and the references the generator's locals    *)
(* and the yielded Diffs hold to them.                                     *)
(***************************************************************************)
VARIABLES
    lists,      \* the list objects: lists[i] is the content of list i
    hunk_objs,  \* the Hunk objects: _hunk_headers and _hunk_list are list ids
    diff_objs,  \* the UnifiedDiff objects: _headers and _hunks are list ids
    rdiff,      \* the local "diff": the id of a UnifiedDiff object
    rheaders,   \* the local "headers": the id of a list
    handed,     \* the yields so far: the Diff's id, and its value when yielded
    rinput,     \* the lines read from the stream so far
    rpc         \* "parsing", "done", or the exception that ended the generator

heapVars == <<lists, hunk_objs, diff_objs, rdiff, rheaders, handed, rinput, rpc>>

\* the generator has not been called
HeapIdle ==
    /\ lists = <<>>
    /\ hunk_objs = <<>>
    /\ diff_objs = <<>>
    /\ rdiff = 0
    /\ rheaders = 0
    /\ handed = <<>>
    /\ rinput = <<>>
    /\ rpc = "idle"

(***************************************************************************)
(* DiffParser.get_diff_generator as a state machine: one step per input    *)
(* line, one step for the code after the loop.                             *)
(***************************************************************************)
VARIABLES
    input,      \* the lines read from the stream so far, in order
    diff,       \* the local "diff": the Diff under construction
    headers,    \* the local "headers": the pending headers buffer
    emitted,    \* the Diffs yielded so far, in order
    pc,         \* "parsing", "done", or the exception that ended the generator
    error,      \* the argument of the exception raised, None when there is none
    last,       \* the branch the last step took, its line, what it yielded
    wf          \* how the well-formed grammar reads the lines read so far

parserVars == <<input, diff, headers, emitted, pc, error, last, wf>>

\* the variables of the components the parser does not touch
otherVars == <<streamVars, bridgeVars, textVars, sideVars, heapVars>>

vars == <<parserVars, otherVars>>

\* the variables PatchStream and DiffParser.__init__ do not touch
notStreamVars == <<parserVars, bridgeVars, textVars, sideVars, heapVars>>

\* the variables the forwarder and the filter do not touch
notBridgeVars == <<parserVars, streamVars, textVars, sideVars, heapVars>>

\* the variables a call of strsplit does not touch
notTextVars == <<parserVars, streamVars, bridgeVars, sideVars, heapVars>>

\* the variables the rendering of a row does not touch
notSideVars == <<parserVars, streamVars, bridgeVars, textVars, heapVars>>

\* the variables the generator on objects does not touch
notHeapVars == <<parserVars, streamVars, bridgeVars, textVars, sideVars>>

\* the components other than the parser are not in use
OthersIdle == StreamIdle /\ BridgeIdle /\ TextIdle /\ SideIdle /\ HeapIdle

Init ==
    /\ input = <<>>
    /\ diff = UnifiedDiff(<<>>, None, None, <<>>)
    /\ headers = <<>>
    /\ emitted = <<>>
    /\ pc = "parsing"
    /\ error = None
    /\ last = [branch |-> "start", line |-> <<>>, yields |-> 0]
    /\ wf = WFStart
    /\ OthersIdle

\* the chain with a hunk-body test that does not look at the pending headers
Branch_IgnoreHeaders(line) ==
    IF is_old_path(line) THEN "old_path"
    ELSE IF is_new_path(line) /\ Truthy(diff.old_path) THEN "new_path"
    ELSE IF is_hunk_meta(line) THEN "hunk_meta"
    ELSE IF diff.hunks # <<>>
            /\ (is_old(line) \/ is_new(line) \/ is_common(line)) THEN "hunk_line"
    ELSE IF is_eof(line) THEN "eof"
    ELSE IF is_only_in_dir(line) \/ is_binary_differ(line) THEN "standalone"
    ELSE "headers"

\* the if / elif chain of the loop body: the branch a line takes in the
\* current state
BranchIn(d, hdrs, line) ==
    IF is_old_path(line) THEN "old_path"
    ELSE IF is_new_path(line) /\ Truthy(d.old_path) THEN "new_path"
    ELSE IF is_hunk_meta(line) THEN "hunk_meta"
    ELSE IF d.hunks # <<>> /\ hdrs = <<>>
            /\ (is_old(line) \/ is_new(line) \/ is_common(line)) THEN "hunk_line"
    ELSE IF is_eof(line) THEN "eof"
    ELSE IF is_only_in_dir(line) \/ is_binary_differ(line) THEN "standalone"
    ELSE "headers"

\* the branch a line takes in the current state of the generator
Branch(line) == BranchIn(diff, headers, line)

Read(line, branch, yields) ==
    /\ input' = Append(input, line)
    /\ last' = [branch |-> branch, line |-> line, yields |-> yields]
    /\ wf' = WFStep(wf, line)
    /\ UNCHANGED otherVars

\* if diff.is_old_path(line):
OldPathStep(line) ==
    /\ pc = "parsing"
    /\ Branch(line) = "old_path"
    /\ IF diff.hunks = <<>> \/ is_completed(diff.hunks[Len(diff.hunks)])
       THEN /\ emitted' = IF FullyFormed(diff) THEN Append(emitted, diff) ELSE emitted
            /\ diff' = UnifiedDiff(headers, line, None, <<>>)
            /\ headers' = <<>>
            /\ Read(line, "old_path", IF FullyFormed(diff) THEN 1 ELSE 0)
       ELSE /\ diff' = [diff EXCEPT !.hunks = AppendToLast(@, parse_hunk_line(line))]
            /\ Read(line, "old_path", 0)
            /\ UNCHANGED <<headers, emitted>>
    /\ UNCHANGED <<pc, error>>

\* elif diff.is_new_path(line) and diff._old_path:
\* diff._hunks[-1] raises IndexError when the Diff has no hunk yet
NewPathStep(line) ==
    /\ pc = "parsing"
    /\ Branch(line) = "new_path"
    /\ Read(line, "new_path", 0)
    /\ IF ~Truthy(diff.new_path)
       THEN /\ diff' = [diff EXCEPT !.new_path = line]
            /\ UNCHANGED <<pc, error>>
       ELSE IF diff.hunks = <<>>
            THEN /\ pc' = "IndexError"
                 /\ error' = <<>>
                 /\ UNCHANGED diff
            ELSE /\ diff' = [diff EXCEPT !.hunks = AppendToLast(@, parse_hunk_line(line))]
                 /\ UNCHANGED <<pc, error>>
    /\ UNCHANGED <<headers, emitted>>

\* elif diff.is_hunk_meta(line):
HunkMetaStep(line) ==
    /\ pc = "parsing"
    /\ Branch(line) = "hunk_meta"
    /\ Read(line, "hunk_meta", 0)
    /\ LET m == parse_hunk_meta(line)
       IN  IF ~m.ok
           THEN /\ pc' = "RuntimeError"
                /\ error' = InvalidHunkMeta \o line
                /\ UNCHANGED <<diff, headers>>
           ELSE /\ diff' = [diff EXCEPT !.hunks =
                               Append(@, Hunk(headers, line, m.old_addr, m.new_addr))]
                /\ headers' = <<>>
                /\ UNCHANGED <<pc, error>>
    /\ UNCHANGED emitted

\* elif diff._hunks and not headers and (is_old or is_new or is_common):
HunkLineStep(line) ==
    /\ pc = "parsing"
    /\ Branch(line) = "hunk_line"
    /\ Read(line, "hunk_line", 0)
    /\ diff' = [diff EXCEPT !.hunks = AppendToLast(@, parse_hunk_line(line))]
    /\ UNCHANGED <<headers, emitted, pc, error>>

\* elif diff.is_eof(line): pass
EofStep(line) ==
    /\ pc = "parsing"
    /\ Branch(line) = "eof"
    /\ Read(line, "eof", 0)
    /\ UNCHANGED <<diff, headers, emitted, pc, error>>

\* elif diff.is_only_in_dir(line) or diff.is_binary_differ(line):
StandaloneStep(line) ==
    /\ pc = "parsing"
    /\ Branch(line) = "standalone"
    /\ Read(line, "standalone", IF FullyFormed(diff) THEN 2 ELSE 1)
    /\ emitted' = Append(IF FullyFormed(diff) THEN Append(emitted, diff) ELSE emitted,
                         UnifiedDiff(Append(headers, line), <<>>, <<>>, <<>>))
    /\ headers' = <<>>
    /\ diff' = UnifiedDiff(<<>>, None, None, <<>>)
    /\ UNCHANGED <<pc, error>>

\* the headers branch replacing the pending headers by the line
HeadersStep_Overwrite(line) ==
    /\ pc = "parsing"
    /\ Branch(line) = "headers"
    /\ Read(line, "headers", 0)
    /\ headers' = <<line>>
    /\ UNCHANGED <<diff, emitted, pc, error>>

\* else: headers.append(line)
HeadersStep(line) ==
    /\ pc = "parsing"
    /\ Branch(line) = "headers"
    /\ Read(line, "headers", 0)
    /\ headers' = Append(headers, line)
    /\ UNCHANGED <<diff, emitted, pc, error>>

\* the asserts after the loop without the one on the last hunk's lines
EndAssertsHold_NoLineCheck ==
    /\ diff.new_path # None
    /\ diff.hunks # <<>> => Len(diff.hunks[Len(diff.hunks)].hunk_meta) > 0

\* the asserts after the loop without the one on new_path
EndAssertsHold_NoPathCheck ==
    diff.hunks # <<>> =>
        /\ Len(diff.hunks[Len(diff.hunks)].hunk_meta) > 0
        /\ Len(diff.hunks[Len(diff.hunks)].hunk_list) > 0

\* the three asserts after the loop
EndAssertsHold ==
    /\ diff.new_path # None
    /\ diff.hunks # <<>> =>
           /\ Len(diff.hunks[Len(diff.hunks)].hunk_meta) > 0
           /\ Len(diff.hunks[Len(diff.hunks)].hunk_list) > 0

\* the code after the loop with the two yields in the other order
EndOfInput_HeadersFirst ==
    /\ pc = "parsing"
    /\ IF Truthy(diff.old_path) /\ ~EndAssertsHold
       THEN /\ pc' = "AssertionError"
            /\ error' = <<>>
            /\ last' = [branch |-> "end", line |-> <<>>, yields |-> 0]
            /\ UNCHANGED emitted
       ELSE LET first == IF Truthy(diff.old_path) THEN <<diff>> ELSE <<>>
                second == IF headers # <<>>
                          THEN <<UnifiedDiff(headers, <<>>, <<>>, <<>>)>>
                          ELSE <<>>
            IN  /\ emitted' = emitted \o second \o first
                /\ pc' = "done"
                /\ last' = [branch |-> "end", line |-> <<>>,
                            yields |-> Len(first) + Len(second)]
                /\ UNCHANGED error
    /\ UNCHANGED <<input, diff, headers, wf, otherVars>>

\* the code after the loop: the stream is exhausted
EndOfInput ==
    /\ pc = "parsing"
    /\ IF Truthy(diff.old_path) /\ ~EndAssertsHold
       THEN /\ pc' = "AssertionError"
            /\ error' = <<>>
            /\ last' = [branch |-> "end", line |-> <<>>, yields |-> 0]
            /\ UNCHANGED emitted
       ELSE LET first == IF Truthy(diff.old_path) THEN <<diff>> ELSE <<>>
                second == IF headers # <<>>
                          THEN <<UnifiedDiff(headers, <<>>, <<>>, <<>>)>>
                          ELSE <<>>
            IN  /\ emitted' = emitted \o first \o second
                /\ pc' = "done"
                /\ last' = [branch |-> "end", line |-> <<>>,
                            yields |-> Len(first) + Len(second)]
                /\ UNCHANGED error
    /\ UNCHANGED <<input, diff, headers, wf, otherVars>>

\* "for line in self._stream" delivers one more line: fewer than n were read
More(n) == Len(input) < n

Next ==
    \/ \E line \in Lines : More(MaxLen) /\ OldPathStep(line)
    \/ \E line \in Lines : More(MaxLen) /\ NewPathStep(line)
    \/ \E line \in Lines : More(MaxLen) /\ HunkMetaStep(line)
    \/ \E line \in Lines : More(MaxLen) /\ HunkLineStep(line)
    \/ \E line \in Lines : More(MaxLen) /\ EofStep(line)
    \/ \E line \in Lines : More(MaxLen) /\ StandaloneStep(line)
    \/ \E line \in Lines : More(MaxLen) /\ HeadersStep(line)
    \/ EndOfInput

Spec == Init /\ [][Next]_vars

\* the parser on streams of MetaLines (none of them an end-of-file marker)
NextMeta ==
    \/ \E line \in MetaLines : More(MaxLenMeta) /\ OldPathStep(line)
    \/ \E line \in MetaLines : More(MaxLenMeta) /\ NewPathStep(line)
    \/ \E line \in MetaLines : More(MaxLenMeta) /\ HunkMetaStep(line)
    \/ \E line \in MetaLines : More(MaxLenMeta) /\ HunkLineStep(line)
    \/ \E line \in MetaLines : More(MaxLenMeta) /\ StandaloneStep(line)
    \/ \E line \in MetaLines : More(MaxLenMeta) /\ HeadersStep(line)
    \/ EndOfInput

SpecMeta == Init /\ [][NextMeta]_vars

\* the stream may deliver line next and stay a prefix of a well-formed diff
WFMore(line) ==
    Len(input) < MaxLenWF /\ WFStep(wf, line).ph # "bad"

NextWF ==
    \/ \E line \in WFLines : WFMore(line) /\ OldPathStep(line)
    \/ \E line \in WFLines : WFMore(line) /\ NewPathStep(line)
    \/ \E line \in WFLines : WFMore(line) /\ HunkMetaStep(line)
    \/ \E line \in WFLines : WFMore(line) /\ HunkLineStep(line)
    \/ \E line \in WFLines : WFMore(line) /\ EofStep(line)
    \/ \E line \in WFLines : WFMore(line) /\ HeadersStep(line)
    \/ wf.ph = "between" /\ EndOfInput

SpecWF == Init /\ [][NextWF]_vars

\* the parser is not in use
ParserIdle ==
    /\ input = <<>>
    /\ diff = UnifiedDiff(<<>>, None, None, <<>>)
    /\ headers = <<>>
    /\ emitted = <<>>
    /\ pc = "idle"
    /\ error = None
    /\ last = [branch |-> "start", line |-> <<>>, yields |-> 0]
    /\ wf = WFStart

(***************************************************************************)
(* The streams the model hands to PatchStream.                             *)
(***************************************************************************)
\* longest run of free lines that ends a stream
MaxTail == 3
\* largest argument of a read_stream_header call made apart from the parser's
MaxAhead == 3

S_Stars == <<"*", "*", "*", " ", "a", "\n">>
S_Sep == ContextSeparator \o <<"\n">>
S_SepCrLf == ContextSeparator \o <<"\r", "\n">>
S_Range == <<"*", "*", "*", " ", "1", " ", "*", "*", "*", "*", "\n">>
S_RangeCrLf == <<"*", "*", "*", " ", "1", " ", "*", "*", "*", "*", "\r", "\n">>
S_RangeOpen == <<"*", "*", "*", " ", "1", "\n">>
S_Fill == <<"x", "\n">>

\* k filler lines
Pad(k) == [i \in 1..k |-> S_Fill]

\* the four lines that open a context diff, and their near misses
ContextHeads ==
    {<<l0, l1, l2, l3>> :
        l0 \in {S_Stars, S_Fill}, l1 \in {L_OldPath, S_Fill},
        l2 \in {S_Sep, S_SepCrLf, S_Fill},
        l3 \in {S_Range, S_RangeCrLf, S_RangeOpen}}

\* how a stream starts: with nothing, with a context head, or with filler that
\* puts what follows at the end of the look-ahead window
Heads ==
    {<<>>, <<S_Stars, L_OldPath, S_Sep>>} \cup ContextHeads
        \cup {Pad(StreamHeaderSize - 2), Pad(StreamHeaderSize - 1)}

TailLines == {L_OldPath, L_NewPath, S_Fill}

Tails == UNION {[1..n -> TailLines] : n \in 0..MaxTail}

Sources == {h \o t : h \in Heads, t \in Tails}

(***************************************************************************)
(* class PatchStream, DiffParser.__init__ and the pass-through loop of     *)
(* main as a state machine.                                                *)
(***************************************************************************)
InitStream ==
    /\ source \in Sources
    /\ diff_hdl = source
    /\ stream_header = <<>>
    /\ stream_header_size = 0
    /\ is_empty = FALSE
    /\ ahead = -1
    /\ ptype = "none"
    /\ warned = FALSE
    /\ translator = FALSE
    /\ spc = "new"
    /\ yielded = <<>>
    /\ ParserIdle
    /\ BridgeIdle
    /\ TextIdle
    /\ SideIdle
    /\ HeapIdle

\* PatchStream.__init__: the emptiness probe reads one line
PatchStream__init__ ==
    /\ spc = "new"
    /\ spc' = "open"
    /\ IF diff_hdl = <<>>
       THEN /\ is_empty' = TRUE
            /\ UNCHANGED <<diff_hdl, stream_header, stream_header_size>>
       ELSE /\ stream_header' = Append(stream_header, Head(diff_hdl))
            /\ stream_header_size' = stream_header_size + 1
            /\ is_empty' = FALSE
            /\ diff_hdl' = Tail(diff_hdl)
    /\ UNCHANGED <<source, ahead, ptype, warned, translator, yielded, notStreamVars>>

\* read_stream_header reading n more lines, as "for i in range(n)" would
AheadCount_Inclusive(n) ==
    LET want == IF n > 0 THEN n ELSE 0
    IN  IF Len(diff_hdl) < want THEN Len(diff_hdl) ELSE want

\* the number of lines "for i in range(1, n)" reads: n - 1 of them, or as
\* many as the handle still holds
AheadCount(n) ==
    LET want == IF n > 1 THEN n - 1 ELSE 0
    IN  IF Len(diff_hdl) < want THEN Len(diff_hdl) ELSE want

\* the loop of read_stream_header dropping the lines it reads
AheadLoop_Discard(n) ==
    /\ stream_header' = stream_header
    /\ stream_header_size' = stream_header_size + AheadCount(n)
    /\ diff_hdl' = Slice(diff_hdl, AheadCount(n))

\* the loop of PatchStream.read_stream_header(n)
AheadLoop(n) ==
    /\ stream_header' = stream_header \o SubSeq(diff_hdl, 1, AheadCount(n))
    /\ stream_header_size' = stream_header_size + AheadCount(n)
    /\ diff_hdl' = Slice(diff_hdl, AheadCount(n))

\* a caller other than the parser calls read_stream_header(n)
ReadStreamHeader(n) ==
    /\ spc = "open"
    /\ spc' = "peeked"
    /\ ahead' = n
    /\ AheadLoop(n)
    /\ UNCHANGED <<source, is_empty, ptype, warned, translator, yielded, notStreamVars>>

\* DiffParser.__init__(stream)
DiffParser__init__ ==
    /\ spc = "open"
    /\ spc' = "sniffed"
    /\ ahead' = StreamHeaderSize
    /\ AheadLoop(StreamHeaderSize)
    /\ IF IsContextHeader(stream_header')
       THEN ptype' = "context" /\ translator' = TRUE /\ warned' = FALSE
       ELSE IF HasPathPair(stream_header')
            THEN ptype' = "unified" /\ translator' = FALSE /\ warned' = FALSE
            ELSE ptype' = "unified" /\ translator' = FALSE /\ warned' = TRUE
    /\ UNCHANGED <<source, is_empty, yielded, notStreamVars>>

\* __iter__ may be started or resumed
Iterable == spc \in {"open", "peeked", "sniffed", "replay", "rest"}

\* __iter__: "for line in self._stream_header: yield line"
IterHeader ==
    /\ spc \in {"open", "peeked", "sniffed", "replay"}
    /\ Len(yielded) < Len(stream_header)
    /\ yielded' = Append(yielded, stream_header[Len(yielded) + 1])
    /\ spc' = "replay"
    /\ UNCHANGED <<source, diff_hdl, stream_header, stream_header_size, is_empty,
                   ahead, ptype, warned, translator, notStreamVars>>

\* __iter__: "for line in self._diff_hdl: yield line"
IterRest ==
    /\ Iterable
    /\ Len(yielded) >= Len(stream_header)
    /\ diff_hdl # <<>>
    /\ yielded' = Append(yielded, Head(diff_hdl))
    /\ diff_hdl' = Tail(diff_hdl)
    /\ spc' = "rest"
    /\ UNCHANGED <<source, stream_header, stream_header_size, is_empty, ahead,
                   ptype, warned, translator, notStreamVars>>

\* __iter__ returns: both loops are over
IterStop ==
    /\ Iterable
    /\ Len(yielded) >= Len(stream_header)
    /\ diff_hdl = <<>>
    /\ spc' = "stopped"
    /\ UNCHANGED <<source, diff_hdl, stream_header, stream_header_size, is_empty,
                   ahead, ptype, warned, translator, yielded, notStreamVars>>

NextStream ==
    \/ PatchStream__init__
    \/ \E n \in 0..MaxAhead : ReadStreamHeader(n)
    \/ DiffParser__init__
    \/ IterHeader
    \/ IterRest
    \/ IterStop

SpecStream == InitStream /\ [][NextStream]_vars

(***************************************************************************)
(* class PatchStreamForwarder as a state machine, with the filter process  *)
(* and the two pipes as its environment.  A line is a number here: the     *)
(* bridge looks at no line's text, and what the filter makes of a line is  *)
(* the filter's business.                                                  *)
(***************************************************************************)
\* largest capacity of a pipe, in lines
MaxCap == 2
\* largest number of upstream lines
MaxUp == 4
\* largest number of lines the filter holds inside
MaxHeld == 3

InitBridge ==
    /\ \E n \in 0..MaxUp : istream = [i \in 1..n |-> i]
    /\ in_pipe = <<>>
    /\ in_closed = FALSE
    /\ in_hand = <<>>
    /\ out_pipe = <<>>
    /\ out_closed = FALSE
    /\ fpc = "poll"
    /\ forwarded = <<>>
    /\ held = <<>>
    /\ filter = "run"
    /\ cap_in \in 1..MaxCap
    /\ cap_out \in 1..MaxCap
    /\ lastop = [ready |-> FALSE, did |-> "none"]
    /\ pipelog = [upstream |-> istream, written |-> <<>>, closes |-> 0,
                  produced |-> <<>>]
    /\ ParserIdle
    /\ StreamIdle
    /\ TextIdle
    /\ SideIdle
    /\ HeapIdle

\* _can_read answering that output is ready whenever asked
_can_read_Always == TRUE

\* _can_read(): select() reports the filter's stdout readable: a line is in
\* the pipe, or the filter closed it (end of file is readable)
_can_read == out_pipe # <<>> \/ out_closed

\* an iteration that finds output ready: line = self._out.readline()
IterRead ==
    /\ fpc = "poll"
    /\ _can_read
    /\ IF out_pipe # <<>>
       THEN /\ forwarded' = Append(forwarded, Head(out_pipe))
            /\ out_pipe' = Tail(out_pipe)
            /\ lastop' = [ready |-> TRUE, did |-> "yield"]
            /\ UNCHANGED fpc
       ELSE /\ fpc' = "done"
            /\ lastop' = [ready |-> TRUE, did |-> "return"]
            /\ UNCHANGED <<forwarded, out_pipe>>
    /\ UNCHANGED <<istream, in_pipe, in_closed, in_hand, out_closed, held, filter,
                   cap_in, cap_out, pipelog, notBridgeVars>>

\* an iteration that finds no output ready and the input open, with a line
\* upstream: _forward_line() writes it, and the write blocks on a full pipe
IterForward ==
    /\ fpc = "poll"
    /\ ~_can_read
    /\ ~in_closed
    /\ istream # <<>>
    /\ istream' = Tail(istream)
    /\ pipelog' = [pipelog EXCEPT !.written = Append(@, Head(istream))]
    /\ lastop' = [ready |-> FALSE, did |-> "write"]
    /\ IF Len(in_pipe) < cap_in
       THEN /\ in_pipe' = Append(in_pipe, Head(istream))
            /\ UNCHANGED <<fpc, in_hand>>
       ELSE /\ fpc' = "write"
            /\ in_hand' = <<Head(istream)>>
            /\ UNCHANGED in_pipe
    /\ UNCHANGED <<in_closed, out_pipe, out_closed, forwarded, held, filter,
                   cap_in, cap_out, notBridgeVars>>

\* the blocked self._in.write(line) returns: the pipe has room again
WriteReturns ==
    /\ fpc = "write"
    /\ Len(in_pipe) < cap_in
    /\ in_pipe' = Append(in_pipe, in_hand[1])
    /\ in_hand' = <<>>
    /\ fpc' = "poll"
    /\ UNCHANGED <<istream, in_closed, out_pipe, out_closed, forwarded, held,
                   filter, cap_in, cap_out, lastop, pipelog, notBridgeVars>>

\* _forward_line closing the input whether or not a line is left upstream
IterClose_Early ==
    /\ fpc = "poll"
    /\ ~_can_read
    /\ ~in_closed
    /\ in_closed' = TRUE
    /\ pipelog' = [pipelog EXCEPT !.closes = @ + 1]
    /\ lastop' = [ready |-> FALSE, did |-> "close"]
    /\ UNCHANGED <<istream, in_pipe, in_hand, out_pipe, out_closed, fpc, forwarded,
                   held, filter, cap_in, cap_out, notBridgeVars>>

\* an iteration that finds no output ready and the input open, with the
\* upstream exhausted: StopIteration, self._in.close()
IterClose ==
    /\ fpc = "poll"
    /\ ~_can_read
    /\ ~in_closed
    /\ istream = <<>>
    /\ in_closed' = TRUE
    /\ pipelog' = [pipelog EXCEPT !.closes = @ + 1]
    /\ lastop' = [ready |-> FALSE, did |-> "close"]
    /\ UNCHANGED <<istream, in_pipe, in_hand, out_pipe, out_closed, fpc, forwarded,
                   held, filter, cap_in, cap_out, notBridgeVars>>

\* an iteration that finds no output ready and the input closed: nothing
IterIdle ==
    /\ fpc = "poll"
    /\ ~_can_read
    /\ in_closed
    /\ lastop' = [ready |-> FALSE, did |-> "nothing"]
    /\ UNCHANGED <<istream, in_pipe, in_closed, in_hand, out_pipe, out_closed, fpc,
                   forwarded, held, filter, cap_in, cap_out, pipelog, notBridgeVars>>

\* the filter reads a line from its stdin
FilterRead ==
    /\ filter = "run"
    /\ in_pipe # <<>>
    /\ Len(held) < MaxHeld
    /\ held' = Append(held, Head(in_pipe))
    /\ in_pipe' = Tail(in_pipe)
    /\ UNCHANGED <<istream, in_closed, in_hand, out_pipe, out_closed, fpc,
                   forwarded, filter, cap_in, cap_out, lastop, pipelog, notBridgeVars>>

\* the filter starts to write the lines it holds to its stdout
FilterWrite ==
    /\ filter = "run"
    /\ held # <<>>
    /\ filter' = "write"
    /\ UNCHANGED <<istream, in_pipe, in_closed, in_hand, out_pipe, out_closed, fpc,
                   forwarded, held, cap_in, cap_out, lastop, pipelog, notBridgeVars>>

\* the filter's write moves a line into the pipe when the pipe has room, and
\* returns when all the lines are written
FilterWrites ==
    /\ filter = "write"
    /\ Len(out_pipe) < cap_out
    /\ out_pipe' = Append(out_pipe, Head(held))
    /\ pipelog' = [pipelog EXCEPT !.produced = Append(@, Head(held))]
    /\ held' = Tail(held)
    /\ filter' = IF Tail(held) = <<>> THEN "run" ELSE "write"
    /\ UNCHANGED <<istream, in_pipe, in_closed, in_hand, out_closed, fpc, forwarded,
                   cap_in, cap_out, lastop, notBridgeVars>>

\* the filter reads end of file, has nothing left to put out, and exits
FilterExit ==
    /\ filter = "run"
    /\ in_closed
    /\ in_pipe = <<>>
    /\ held = <<>>
    /\ filter' = "exit"
    /\ out_closed' = TRUE
    /\ UNCHANGED <<istream, in_pipe, in_closed, in_hand, out_pipe, fpc, forwarded,
                   held, cap_in, cap_out, lastop, pipelog, notBridgeVars>>

NextBridge ==
    \/ IterRead
    \/ IterForward
    \/ WriteReturns
    \/ IterClose
    \/ IterIdle
    \/ FilterRead
    \/ FilterWrite
    \/ FilterWrites
    \/ FilterExit

SpecBridge == InitBridge /\ [][NextBridge]_vars

\* the forwarder's loop keeps iterating and a write returns once the pipe has
\* room; the filter process keeps running: it reads offered input, writes
\* what it holds once the pipe has room, and exits at end of input
FairBridge ==
    /\ WF_vars(IterRead)
    /\ WF_vars(IterForward)
    /\ WF_vars(WriteReturns)
    /\ WF_vars(IterClose)
    /\ WF_vars(IterIdle)
    /\ WF_vars(FilterRead)
    /\ WF_vars(FilterWrite)
    /\ WF_vars(FilterWrites)
    /\ WF_vars(FilterExit)

SpecBridgeFair == SpecBridge /\ FairBridge

(***************************************************************************)
(* strsplit called on the strings built from visible characters and        *)
(* escape sequences.                                                       *)
(***************************************************************************)
\* largest number of pieces (a visible character or an escape sequence) of a
\* text
MaxPieces == 4
\* largest split width
MaxSplitWidth == 3

\* the pieces texts are built from
Pieces ==
    {<<"a">>, <<"[">>, Color("reset"), Color("red"), Color("green"),
     Color("reverse"), Color("lightred")}

RECURSIVE Flatten(_)
Flatten(ps) == IF ps = <<>> THEN <<>> ELSE Head(ps) \o Flatten(Tail(ps))

Texts == {Flatten(ps) : ps \in UNION {[1..n -> Pieces] : n \in 0..MaxPieces}}

InitText ==
    /\ split_text \in Texts
    /\ split_width \in 0..MaxSplitWidth
    /\ split = <<>>
    /\ ParserIdle
    /\ StreamIdle
    /\ BridgeIdle
    /\ SideIdle
    /\ HeapIdle

\* strsplit(text, split_width) returns
CallStrsplit ==
    /\ split = <<>>
    /\ split' = strsplit(split_text, split_width)
    /\ UNCHANGED <<split_text, split_width, notTextVars>>

NextText == CallStrsplit

SpecText == InitText /\ [][NextText]_vars

(***************************************************************************)
(* DiffMarker._markup_side_by_side as a state machine: the number width    *)
(* is set up for a Diff, then one row of one of its hunks is rendered.     *)
(***************************************************************************)
\* largest number of visible characters of a side of a row
MaxText == 5
\* largest column width
MaxColumn == 2
\* largest number of hunks of the Diff
MaxHunks == 2
\* self._tab_width
TabWidth == 2
\* largest number of columns of the terminal
MaxTermCols == 9
\* largest number of output lines of a row the model follows
MaxOut == 8

\* n times the character "a"
Body(n) == [i \in 1..n |-> "a"]

\* the (old text, new text, changed, has old, has new) of the rows
\* difflib._mdiff yields: an unchanged line, a deleted line, an added line, a
\* line replaced by another, a line changed inside
RowShapes ==
    {<<Body(k) \o <<"\n">>, Body(k) \o <<"\n">>, FALSE, TRUE, TRUE>> :
        k \in 0..MaxText}
    \cup {<<<<"\t", "a", "\n">>, <<"\t", "a", "\n">>, FALSE, TRUE, TRUE>>}
    \cup {<<<<"NUL", "-">> \o Body(k) \o <<"\n", "SOH">>, <<"\n">>, TRUE, TRUE, FALSE>> :
        k \in 0..MaxText}
    \cup {<<<<"\n">>, <<"NUL", "+">> \o Body(k) \o <<"\n", "SOH">>, TRUE, FALSE, TRUE>> :
        k \in 0..MaxText}
    \cup {<<<<"NUL", "-">> \o Body(k) \o <<"\n", "SOH">>,
            <<"NUL", "+">> \o Body(j) \o <<"\n", "SOH">>, TRUE, TRUE, TRUE>> :
        k \in 0..MaxText, j \in 0..MaxText}
    \cup {<<<<"a", "NUL", "^", "a", "SOH", "a", "\n">>,
            <<"a", "NUL", "^", "a", "a", "SOH", "a", "\n">>, TRUE, TRUE, TRUE>>}

\* the rows of a hunk: a shape, with a line number on each side it has
Rows(hunk) ==
    {[old |-> <<IF sh[4] THEN i ELSE 0, sh[1]>>,
      new |-> <<IF sh[5] THEN j ELSE 0, sh[2]>>, changed |-> sh[3]] :
        sh \in {x \in RowShapes : /\ x[4] => hunk.old_addr[2] >= 1
                                  /\ x[5] => hunk.new_addr[2] >= 1},
        i \in 1..(IF hunk.old_addr[2] >= 1 THEN hunk.old_addr[2] ELSE 1),
        j \in 1..(IF hunk.new_addr[2] >= 1 THEN hunk.new_addr[2] ELSE 1)}

\* the hunks of the Diffs: of a new file, of a deleted file, in the middle of
\* a file, further down
SideHunks ==
    {Hunk(<<>>, L_Meta, <<0, 0>>, <<1, 2>>),
     Hunk(<<>>, L_Meta, <<1, 2>>, <<0, 0>>),
     Hunk(<<>>, L_Meta, <<9, 2>>, <<9, 1>>),
     Hunk(<<>>, L_Meta, <<100, 1>>, <<99, 2>>)}

InitSide ==
    /\ sbs_hunks \in UNION {[1..n -> SideHunks] : n \in 0..MaxHunks}
    /\ num_width = 0
    /\ col_width \in 1..MaxColumn
    /\ wrap \in BOOLEAN
    /\ sbs_row = NoRow
    /\ hunk_at = 0
    /\ left = <<>>
    /\ right = <<>>
    /\ lncur = <<>>
    /\ rncur = <<>>
    /\ out_lines = <<>>
    /\ mpc = "setup"
    /\ ParserIdle
    /\ StreamIdle
    /\ BridgeIdle
    /\ TextIdle
    /\ HeapIdle

\* the width autodetected on a terminal of cols columns
AutoWidth(cols, nw) == (cols - nw * 2 - 3) \div 2

\* the width used when the terminal size cannot be had
DefaultWidth == 80

\* "Set up number width" and "Set up line width": col_width holds self._width
\* before and the local width after; terminal_size() yields a number of
\* columns, or none, and the arithmetic on none raises
SetUpNumWidth ==
    /\ mpc = "setup"
    /\ num_width' = NumWidth(sbs_hunks)
    /\ col_width' \in
           IF col_width > 0 THEN {col_width}
           ELSE {AutoWidth(cols, NumWidth(sbs_hunks)) : cols \in 0..MaxTermCols}
                    \cup {DefaultWidth}
    /\ mpc' = "rows"
    /\ UNCHANGED <<sbs_hunks, wrap, sbs_row, hunk_at, left, right, lncur,
                   rncur, out_lines, notSideVars>>

\* a row of hunk h in wrap mode, up to the while loop
WrapRow(h, r) ==
    /\ mpc = "rows"
    /\ wrap
    /\ sbs_row' = r
    /\ hunk_at' = h
    /\ LET c == Cells(r, TabWidth)
       IN  left' = c[1] /\ right' = c[2]
    /\ lncur' = RowNum(sbs_hunks[h].old_addr, r.old[1])
    /\ rncur' = RowNum(sbs_hunks[h].new_addr, r.new[1])
    /\ out_lines' = <<>>
    /\ mpc' = "wrap"
    /\ UNCHANGED <<sbs_hunks, num_width, col_width, wrap, notSideVars>>

\* an iteration of the while loop that leaves the numbers in lncur and rncur
WrapStep_KeepNumbers ==
    /\ mpc = "wrap"
    /\ left # <<>> \/ right # <<>>
    /\ Len(out_lines) < MaxOut
    /\ LET l == strsplit(left, col_width)
           r == strsplit(right, col_width)
           lcur == IF l[3] < col_width THEN l[1] \o Spaces(col_width - l[3])
                   ELSE l[1]
       IN  /\ out_lines' = Append(out_lines, line_fmt(num_width, lncur, lcur, rncur, r[1]))
           /\ left' = l[2]
           /\ right' = r[2]
    /\ UNCHANGED <<lncur, rncur>>
    /\ UNCHANGED <<sbs_hunks, num_width, col_width, wrap, sbs_row, hunk_at, mpc,
                   notSideVars>>

\* an iteration of "while left or right"
WrapStep ==
    /\ mpc = "wrap"
    /\ left # <<>> \/ right # <<>>
    /\ Len(out_lines) < MaxOut
    /\ LET l == strsplit(left, col_width)
           r == strsplit(right, col_width)
           lcur == IF l[3] < col_width THEN l[1] \o Spaces(col_width - l[3])
                   ELSE l[1]
       IN  /\ out_lines' = Append(out_lines, line_fmt(num_width, lncur, lcur, rncur, r[1]))
           /\ left' = l[2]
           /\ right' = r[2]
    /\ lncur' = <<>>
    /\ rncur' = <<>>
    /\ UNCHANGED <<sbs_hunks, num_width, col_width, wrap, sbs_row, hunk_at, mpc,
                   notSideVars>>

\* "while left or right" ends
WrapEnd ==
    /\ mpc = "wrap"
    /\ left = <<>>
    /\ right = <<>>
    /\ mpc' = "rowdone"
    /\ UNCHANGED <<sbs_hunks, num_width, col_width, wrap, sbs_row, hunk_at, left, right,
                   lncur, rncur, out_lines, notSideVars>>

\* a row of hunk h when long lines are not wrapped
TrimRow(h, r) ==
    /\ mpc = "rows"
    /\ ~wrap
    /\ sbs_row' = r
    /\ hunk_at' = h
    /\ LET c == Cells(r, TabWidth)
           l == strtrim(c[1], col_width, WrapChar, Len(c[2]) > 0)
           rr == strtrim(c[2], col_width, WrapChar, FALSE)
       IN  /\ left' = l
           /\ right' = rr
           /\ out_lines' =
                  <<line_fmt(num_width, RowNum(sbs_hunks[h].old_addr, r.old[1]), l,
                             RowNum(sbs_hunks[h].new_addr, r.new[1]), rr)>>
    /\ mpc' = "rowdone"
    /\ UNCHANGED <<sbs_hunks, num_width, col_width, wrap, lncur, rncur, notSideVars>>

\* the loops "for hunk in diff._hunks" and "for old, new, changed in
\* hunk.mdiff()" are at a row
AtRow == mpc = "rows"

\* a Diff to render with the width option left at 0: the width is
\* autodetected
InitSideAuto ==
    /\ sbs_hunks \in {<<hunk>> : hunk \in SideHunks}
    /\ num_width = 0
    /\ col_width = 0
    /\ wrap \in BOOLEAN
    /\ sbs_row = NoRow
    /\ hunk_at = 0
    /\ left = <<>>
    /\ right = <<>>
    /\ lncur = <<>>
    /\ rncur = <<>>
    /\ out_lines = <<>>
    /\ mpc = "setup"
    /\ ParserIdle
    /\ StreamIdle
    /\ BridgeIdle
    /\ TextIdle
    /\ HeapIdle

NextSide ==
    \/ SetUpNumWidth
    \/ AtRow /\ \E h \in 1..Len(sbs_hunks) : \E r \in Rows(sbs_hunks[h]) : WrapRow(h, r)
    \/ WrapStep
    \/ WrapEnd
    \/ AtRow /\ \E h \in 1..Len(sbs_hunks) : \E r \in Rows(sbs_hunks[h]) : TrimRow(h, r)

SpecSide == InitSide /\ [][NextSide]_vars

SpecSideAuto == InitSideAuto /\ [][NextSide]_vars

(***************************************************************************)
(* The generator on objects.  A list literal and a constructor call        *)
(* allocate a new object; an assignment to a local rebinds the local;      *)
(* append changes the list object in place.                                *)
(***************************************************************************)
\* bound of SpecHeap: the number of lines of a stream
MaxLenHeap == 5

\* the lines of SpecHeap
HeapLines == {L_OldPath, L_NewPath, L_Meta, L_Del, L_Add, L_Eof, L_OnlyIn, L_Hdr}

\* the Hunk object h as a value: its lists by content
HunkValue(ls, hs, h) ==
    [hunk_headers |-> ls[hs[h].hunk_headers], hunk_meta |-> hs[h].hunk_meta,
     old_addr |-> hs[h].old_addr, new_addr |-> hs[h].new_addr,
     hunk_list |-> ls[hs[h].hunk_list]]

\* the UnifiedDiff object d as a value: its lists and Hunks by content
DiffValue(ls, hs, ds, d) ==
    UnifiedDiff(ls[ds[d].headers], ds[d].old_path, ds[d].new_path,
                [i \in 1..Len(ls[ds[d].hunks]) |-> HunkValue(ls, hs, ls[ds[d].hunks][i])])

\* the local diff and the local headers, by content
CurDiff == DiffValue(lists, hunk_objs, diff_objs, rdiff)

CurHeaders == lists[rheaders]

\* the id of diff._hunks[-1]
CurLastHunk == lists[diff_objs[rdiff].hunks][Len(lists[diff_objs[rdiff].hunks])]

\* "headers = []" written as emptying the list in place
ResetHeaders_InPlace(ls, h) == [lists |-> [ls EXCEPT ![h] = <<>>], ref |-> h]

\* headers = []: a new list object, to which the local is rebound
ResetHeaders(ls, h) == [lists |-> Append(ls, <<>>), ref |-> Len(ls) + 1]

\* UnifiedDiff(headers, old_path, new_path, []): a new hunks list and a new
\* UnifiedDiff object holding the list "hdrs" itself
NewDiff(ls, ds, hdrs, old_path, new_path) ==
    [lists |-> Append(ls, <<>>),
     diff_objs |-> Append(ds, [headers |-> hdrs, old_path |-> old_path,
                               new_path |-> new_path, hunks |-> Len(ls) + 1]),
     ref |-> Len(ds) + 1]

\* yield d: the consumer receives the object d, whose value is now "seen"
Yield(ys, ls, hs, ds, d) == Append(ys, [ref |-> d, seen |-> DiffValue(ls, hs, ds, d)])

\* diff = UnifiedDiff([], None, None, []); headers = []
InitHeap ==
    /\ lists = <<<<>>, <<>>, <<>>>>
    /\ hunk_objs = <<>>
    /\ diff_objs = <<[headers |-> 1, old_path |-> None, new_path |-> None, hunks |-> 2]>>
    /\ rdiff = 1
    /\ rheaders = 3
    /\ handed = <<>>
    /\ rinput = <<>>
    /\ rpc = "parsing"
    /\ ParserIdle
    /\ StreamIdle
    /\ BridgeIdle
    /\ TextIdle
    /\ SideIdle

\* for line in self._stream
ReadRef(line) ==
    /\ rpc = "parsing"
    /\ Len(rinput) < MaxLenHeap
    /\ rinput' = Append(rinput, line)
    /\ UNCHANGED notHeapVars

\* diff._hunks[-1].append(diff.parse_hunk_line(line))
AppendRef(line) ==
    /\ lists' = [lists EXCEPT ![hunk_objs[CurLastHunk].hunk_list] =
                     Append(@, parse_hunk_line(line))]
    /\ UNCHANGED <<hunk_objs, diff_objs, rdiff, rheaders, handed>>

\* if diff.is_old_path(line):
OldPathRef(line) ==
    /\ ReadRef(line)
    /\ BranchIn(CurDiff, CurHeaders, line) = "old_path"
    /\ IF CurDiff.hunks = <<>> \/ is_completed(CurDiff.hunks[Len(CurDiff.hunks)])
       THEN LET n == NewDiff(lists, diff_objs, rheaders, line, None)
                r == ResetHeaders(n.lists, rheaders)
            IN  /\ handed' = IF FullyFormed(CurDiff)
                             THEN Yield(handed, lists, hunk_objs, diff_objs, rdiff)
                             ELSE handed
                /\ lists' = r.lists
                /\ diff_objs' = n.diff_objs
                /\ rdiff' = n.ref
                /\ rheaders' = r.ref
                /\ UNCHANGED hunk_objs
       ELSE AppendRef(line)
    /\ UNCHANGED rpc

\* elif diff.is_new_path(line) and diff._old_path:
NewPathRef(line) ==
    /\ ReadRef(line)
    /\ BranchIn(CurDiff, CurHeaders, line) = "new_path"
    /\ IF ~Truthy(CurDiff.new_path)
       THEN /\ diff_objs' = [diff_objs EXCEPT ![rdiff].new_path = line]
            /\ UNCHANGED <<lists, hunk_objs, rdiff, rheaders, handed, rpc>>
       ELSE IF CurDiff.hunks = <<>>
            THEN /\ rpc' = "IndexError"
                 /\ UNCHANGED <<lists, hunk_objs, diff_objs, rdiff, rheaders, handed>>
            ELSE /\ AppendRef(line)
                 /\ UNCHANGED rpc

\* elif diff.is_hunk_meta(line):
HunkMetaRef(line) ==
    /\ ReadRef(line)
    /\ BranchIn(CurDiff, CurHeaders, line) = "hunk_meta"
    /\ LET m == parse_hunk_meta(line)
       IN  IF ~m.ok
           THEN /\ rpc' = "RuntimeError"
                /\ UNCHANGED <<lists, hunk_objs, diff_objs, rdiff, rheaders, handed>>
           ELSE LET ls1 == Append(lists, <<>>)
                    hunk == [hunk_headers |-> rheaders, hunk_meta |-> line,
                             old_addr |-> m.old_addr, new_addr |-> m.new_addr,
                             hunk_list |-> Len(ls1)]
                    r == ResetHeaders(ls1, rheaders)
                IN  /\ hunk_objs' = Append(hunk_objs, hunk)
                    /\ lists' = [r.lists EXCEPT ![diff_objs[rdiff].hunks] =
                                     Append(@, Len(hunk_objs) + 1)]
                    /\ rheaders' = r.ref
                    /\ UNCHANGED <<diff_objs, rdiff, handed, rpc>>

\* elif diff._hunks and not headers and (is_old or is_new or is_common):
HunkLineRef(line) ==
    /\ ReadRef(line)
    /\ BranchIn(CurDiff, CurHeaders, line) = "hunk_line"
    /\ AppendRef(line)
    /\ UNCHANGED rpc

\* elif diff.is_eof(line): pass
EofRef(line) ==
    /\ ReadRef(line)
    /\ BranchIn(CurDiff, CurHeaders, line) = "eof"
    /\ UNCHANGED <<lists, hunk_objs, diff_objs, rdiff, rheaders, handed, rpc>>

\* elif diff.is_only_in_dir(line) or diff.is_binary_differ(line):
\* yield diff, headers.append(line), yield UnifiedDiff(headers, '', '', []),
\* headers = [], diff = UnifiedDiff([], None, None, [])
StandaloneRef(line) ==
    /\ ReadRef(line)
    /\ BranchIn(CurDiff, CurHeaders, line) = "standalone"
    /\ LET ys1 == IF FullyFormed(CurDiff)
                  THEN Yield(handed, lists, hunk_objs, diff_objs, rdiff)
                  ELSE handed
           ls1 == [lists EXCEPT ![rheaders] = Append(@, line)]
           n == NewDiff(ls1, diff_objs, rheaders, <<>>, <<>>)
           ys2 == Yield(ys1, n.lists, hunk_objs, n.diff_objs, n.ref)
           r == ResetHeaders(n.lists, rheaders)
           e == NewDiff(Append(r.lists, <<>>), n.diff_objs, Len(r.lists) + 1, None, None)
       IN  /\ handed' = ys2
           /\ lists' = e.lists
           /\ diff_objs' = e.diff_objs
           /\ rdiff' = e.ref
           /\ rheaders' = r.ref
           /\ UNCHANGED <<hunk_objs, rpc>>

\* else: headers.append(line)
HeadersRef(line) ==
    /\ ReadRef(line)
    /\ BranchIn(CurDiff, CurHeaders, line) = "headers"
    /\ lists' = [lists EXCEPT ![rheaders] = Append(@, line)]
    /\ UNCHANGED <<hunk_objs, diff_objs, rdiff, rheaders, handed, rpc>>

\* the code after the loop
EndOfInputRef ==
    /\ rpc = "parsing"
    /\ LET d == CurDiff
           asserts == /\ d.new_path # None
                      /\ d.hunks # <<>> =>
                             /\ Len(d.hunks[Len(d.hunks)].hunk_meta) > 0
                             /\ Len(d.hunks[Len(d.hunks)].hunk_list) > 0
       IN  IF Truthy(d.old_path) /\ ~asserts
           THEN /\ rpc' = "AssertionError"
                /\ UNCHANGED <<lists, diff_objs, handed>>
           ELSE LET ys1 == IF Truthy(d.old_path)
                           THEN Yield(handed, lists, hunk_objs, diff_objs, rdiff)
                           ELSE handed
                    n == NewDiff(lists, diff_objs, rheaders, <<>>, <<>>)
                IN  /\ rpc' = "done"
                    /\ IF CurHeaders # <<>>
                       THEN /\ lists' = n.lists
                            /\ diff_objs' = n.diff_objs
                            /\ handed' = Yield(ys1, n.lists, hunk_objs, n.diff_objs, n.ref)
                       ELSE /\ handed' = ys1
                            /\ UNCHANGED <<lists, diff_objs>>
    /\ UNCHANGED <<hunk_objs, rdiff, rheaders, rinput, notHeapVars>>

NextHeap ==
    \/ \E line \in HeapLines : OldPathRef(line)
    \/ \E line \in HeapLines : NewPathRef(line)
    \/ \E line \in HeapLines : HunkMetaRef(line)
    \/ \E line \in HeapLines : HunkLineRef(line)
    \/ \E line \in HeapLines : EofRef(line)
    \/ \E line \in HeapLines : StandaloneRef(line)
    \/ \E line \in HeapLines : HeadersRef(line)
    \/ EndOfInputRef

SpecHeap == InitHeap /\ [][NextHeap]_vars

(***************************************************************************)
(* Vocabulary of the properties.                                           *)
(***************************************************************************)
\* a step that read one more line
ReadsLine == Len(input') = Len(input) + 1

\* the line a ReadsLine step read
NewLine == input'[Len(input')]

\* the number of lines of a hunk whose tag is not t
NotTagged(hunk, t) ==
    Cardinality({i \in 1..Len(hunk.hunk_list) : hunk.hunk_list[i][1] # t})

\* a hunk holds exactly the lines its meta declares
Complete(hunk) ==
    /\ NotTagged(hunk, "+") = hunk.old_addr[2]
    /\ NotTagged(hunk, "-") = hunk.new_addr[2]

LastHunk(d) == d.hunks[Len(d.hunks)]

LastEmitted == emitted[Len(emitted)]

\* old_path, new_path and at least one hunk
HasPathsAndHunk(d) ==
    /\ d.old_path \notin {None, <<>>}
    /\ d.new_path \notin {None, <<>>}
    /\ Len(d.hunks) >= 1

\* a Diff with empty paths and no hunks
HeaderOnly(d) == d.old_path = <<>> /\ d.new_path = <<>> /\ d.hunks = <<>>

\* the last hunk of d with one more line (tag, text), all else as in d
WithLine(d, tag, text) ==
    [d EXCEPT !.hunks[Len(d.hunks)].hunk_list = Append(@, <<tag, text>>)]

(***************************************************************************)
(* C1.                                                                     *)
(***************************************************************************)
\* C1 (as claimed): every Hunk of every emitted Diff is complete: its lines
\* not tagged new number old_addr.count and its lines not tagged old number
\* new_addr.count.
C1_EveryEmittedHunkComplete ==
    \A i \in 1..Len(emitted) :
        \A j \in 1..Len(emitted[i].hunks) : Complete(emitted[i].hunks[j])

\* C1 (amended): the last Hunk of a Diff emitted at an old-path boundary is
\* complete.
C1_BoundaryLastHunkComplete ==
    (last.branch = "old_path" /\ last.yields = 1) => Complete(LastHunk(LastEmitted))

\* a Diff was emitted at an old-path boundary and its last hunk holds lines
C1_Witness ==
    /\ last.branch = "old_path"
    /\ last.yields = 1
    /\ LastHunk(LastEmitted).hunk_list # <<>>
    /\ Complete(LastHunk(LastEmitted))

(***************************************************************************)
(* C2.                                                                     *)
(***************************************************************************)
\* a path as lines of text: none when it is None or empty
PathLines(path) == IF path \in {None, <<>>} THEN <<>> ELSE <<path>>

RECURSIVE HunkLines(_)
\* the tagged lines of a hunk as text: tag, then text
HunkLines(hunk_list) ==
    IF hunk_list = <<>> THEN <<>>
    ELSE <<(<<hunk_list[1][1]>> \o hunk_list[1][2])>> \o HunkLines(Tail(hunk_list))

RECURSIVE HunksText(_)
HunksText(hunks) ==
    IF hunks = <<>> THEN <<>>
    ELSE hunks[1].hunk_headers \o <<hunks[1].hunk_meta>>
             \o HunkLines(hunks[1].hunk_list) \o HunksText(Tail(hunks))

RECURSIVE Serialize(_)
\* the emitted Diffs written back as unified-diff text
Serialize(ds) ==
    IF ds = <<>> THEN <<>>
    ELSE ds[1].headers \o PathLines(ds[1].old_path) \o PathLines(ds[1].new_path)
             \o HunksText(ds[1].hunks) \o Serialize(Tail(ds))

\* C2 (as claimed): for a well-formed unified diff, end-of-file markers
\* included, the emitted Diffs written back as text are the input, line for
\* line.
C2_RoundTrip ==
    (pc # "parsing" /\ WellFormed(input)) =>
        (pc = "done" /\ Serialize(emitted) = input)

\* C2 (amended): the same for a well-formed unified diff that holds no
\* end-of-file marker, whose header lines start with none of "-", "+", " "
\* and whose body lines are not lines of 72 dashes.
C2_RoundTripPlain ==
    (pc # "parsing" /\ WellFormedPlain(input)) =>
        (pc = "done" /\ Serialize(emitted) = input)

\* a diff of two files, the second with a header line, was parsed to its end
C2_Witness ==
    /\ pc = "done"
    /\ WellFormedPlain(input)
    /\ Len(emitted) = 2
    /\ emitted[1].hunks # <<>>
    /\ emitted[2].headers # <<>>
    /\ emitted[2].hunks # <<>>

(***************************************************************************)
(* C3.                                                                     *)
(***************************************************************************)
\* C3: a line starting with "--- " starts a new Diff when the open Diff has
\* no hunk or its last hunk is complete (the previous Diff is yielded iff it
\* has both paths and a hunk; the pending headers become the new Diff's
\* headers and are cleared); otherwise it is appended to the last hunk as an
\* old-tagged line and nothing is started or yielded.
C3_OldPathLine ==
    [][(ReadsLine /\ StartsWith(NewLine, OldPathPrefix)) =>
          /\ pc' = "parsing"
          /\ IF diff.hunks = <<>> \/ Complete(LastHunk(diff))
             THEN /\ diff' = [headers |-> headers, old_path |-> NewLine,
                              new_path |-> None, hunks |-> <<>>]
                  /\ headers' = <<>>
                  /\ emitted' = IF HasPathsAndHunk(diff)
                                THEN Append(emitted, diff)
                                ELSE emitted
             ELSE /\ diff' = WithLine(diff, "-", Tail(NewLine))
                  /\ headers' = headers
                  /\ emitted' = emitted]_vars

\* a "--- " line was taken as data of an incomplete hunk
C3_Witness ==
    /\ last.branch = "old_path"
    /\ diff.hunks # <<>>
    /\ LastHunk(diff).hunk_list # <<>>
    /\ LastHunk(diff).hunk_list[Len(LastHunk(diff).hunk_list)] = <<"-", Tail(L_OldPath)>>
    /\ emitted = <<>>

(***************************************************************************)
(* C4.                                                                     *)
(***************************************************************************)
\* C4: a line starting with "+++ " while old_path is set becomes new_path
\* when new_path is unset, and otherwise is appended to the current hunk as a
\* new-tagged line; the step never fails, also when both paths are set and no
\* hunk is open.
C4_NewPathLine ==
    [][(ReadsLine /\ StartsWith(NewLine, NewPathPrefix)
          /\ diff.old_path \notin {None, <<>>}) =>
          /\ pc' = "parsing"
          /\ headers' = headers
          /\ emitted' = emitted
          /\ IF diff.new_path \in {None, <<>>}
             THEN diff' = [diff EXCEPT !.new_path = NewLine]
             ELSE /\ diff.hunks # <<>>
                  /\ diff' = WithLine(diff, "+", Tail(NewLine))]_vars

(***************************************************************************)
(* C5.                                                                     *)
(***************************************************************************)
\* a line of exactly 72 dashes (and its line end)
IsDashes72(line) ==
    /\ Len(line) = 73
    /\ \A i \in 1..72 : line[i] = "-"
    /\ line[73] = "\n"

\* the hunk is open and incomplete and no headers are pending
OpenIncomplete ==
    diff.hunks # <<>> /\ ~Complete(LastHunk(diff)) /\ headers = <<>>

\* C5 (as claimed): a line of exactly 72 dashes arriving while a hunk is open
\* and incomplete, with no pending headers, is appended to that hunk as an
\* old-tagged line and is not moved to the pending headers.
C5_Dashes72IsOldLine ==
    [][(ReadsLine /\ IsDashes72(NewLine) /\ OpenIncomplete) =>
          /\ diff' = WithLine(diff, "-", Tail(NewLine))
          /\ headers' = headers]_vars

\* C5 (amended): such a line is not hunk content: it is appended to the
\* pending headers buffer, and the hunk, the Diff and the emitted Diffs stay
\* as they are; it is not taken as an old-path marker.
C5_Dashes72IsHeader ==
    [][(ReadsLine /\ IsDashes72(NewLine) /\ OpenIncomplete) =>
          /\ headers' = <<NewLine>>
          /\ diff' = diff
          /\ emitted' = emitted
          /\ pc' = "parsing"]_vars

\* 72 dashes arrived in an open, incomplete hunk
C5_Witness ==
    /\ IsDashes72(last.line)
    /\ diff.hunks # <<>>
    /\ ~Complete(LastHunk(diff))
    /\ headers = <<last.line>>

(***************************************************************************)
(* C6.                                                                     *)
(***************************************************************************)
\* the standalone-diff markers among the input lines
StandaloneMarkers == {L_OnlyIn, L_Binary}

EmptyDiff == [headers |-> <<>>, old_path |-> None, new_path |-> None, hunks |-> <<>>]

HeaderDiff(hdrs) ==
    [headers |-> hdrs, old_path |-> <<>>, new_path |-> <<>>, hunks |-> <<>>]

\* C6 (as claimed): on a standalone-diff marker the current Diff is yielded
\* iff it has both paths and a hunk, then a header-only Diff whose headers are
\* exactly the marker line, then the open Diff and the pending headers are
\* reset; one marker line alone yields exactly one Diff.
C6_StandaloneSingleLine ==
    [][/\ (ReadsLine /\ NewLine \in StandaloneMarkers) =>
            /\ emitted' = (IF HasPathsAndHunk(diff) THEN Append(emitted, diff)
                           ELSE emitted) \o <<HeaderDiff(<<NewLine>>)>>
            /\ diff' = EmptyDiff
            /\ headers' = <<>>
            /\ pc' = "parsing"
       /\ (~ReadsLine /\ Len(input) = 1 /\ input[1] \in StandaloneMarkers) =>
            (pc' = "done" /\ Len(emitted') = 1)]_vars

\* C6 (amended): the header-only Diff's headers are the pending headers
\* followed by the marker line (the marker line alone when none is pending).
C6_StandaloneWithPending ==
    [][/\ (ReadsLine /\ NewLine \in StandaloneMarkers) =>
            /\ emitted' = (IF HasPathsAndHunk(diff) THEN Append(emitted, diff)
                           ELSE emitted) \o <<HeaderDiff(Append(headers, NewLine))>>
            /\ diff' = EmptyDiff
            /\ headers' = <<>>
            /\ pc' = "parsing"
       /\ (~ReadsLine /\ Len(input) = 1 /\ input[1] \in StandaloneMarkers) =>
            (pc' = "done" /\ Len(emitted') = 1)]_vars

\* a marker arrived with a fully formed Diff open and was yielded after it
C6_Witness ==
    /\ last.line = L_Binary
    /\ last.yields = 2
    /\ Len(emitted) = 2
    /\ HasPathsAndHunk(emitted[1])
    /\ emitted[2] = HeaderDiff(<<L_Binary>>)
    /\ diff = EmptyDiff

(***************************************************************************)
(* C7.                                                                     *)
(***************************************************************************)
\* the input lines that are hunk metas whose addresses are not numeric
BadMetas == {L_MetaBad, M_BadCount}

\* C7: a hunk-meta line whose address cannot be parsed ends the parse with
\* the invalid-hunk-meta error carrying the line; no hunk is opened, the
\* in-progress Diff is not emitted and the emitted Diffs stay as they are,
\* then and afterwards.
C7_InvalidHunkMeta ==
    [][/\ (ReadsLine /\ NewLine \in BadMetas) =>
            /\ pc' = "RuntimeError"
            /\ error' = InvalidHunkMeta \o NewLine
            /\ diff' = diff
            /\ headers' = headers
            /\ emitted' = emitted
       /\ pc = "RuntimeError" => (pc' = pc /\ emitted' = emitted)]_vars

\* the error struck with a fully formed Diff in progress
C7_Witness ==
    /\ pc = "RuntimeError"
    /\ last.line = M_BadCount
    /\ diff.hunks # <<>>
    /\ diff.new_path = L_NewPath
    /\ emitted = <<>>

(***************************************************************************)
(* C8.                                                                     *)
(***************************************************************************)
\* the well-formed hunk metas among the input lines and the addresses they
\* declare
MetaTable ==
    { <<L_Meta, <<1, 1>>, <<1, 1>>>>,
      <<M_Full, <<10, 2>>, <<3, 14>>>>,
      <<M_ShortOld, <<1, 1>>, <<3, 4>>>>,
      <<M_ShortNew, <<1, 2>>, <<3, 1>>>>,
      <<M_Prop, <<0, 0>>, <<1, 1>>>> }

\* C8: "-a,b +c,d" gives old_addr (a, b) and new_addr (c, d), a side without
\* comma has count 1 whatever the other side; the hunk is opened with the
\* pending headers as its headers and no lines, and the pending headers are
\* cleared.
C8_HunkMetaOpensHunk ==
    [][\A row \in MetaTable :
          (ReadsLine /\ NewLine = row[1]) =>
              /\ diff' = [diff EXCEPT !.hunks =
                            Append(@, [hunk_headers |-> headers,
                                       hunk_meta |-> row[1],
                                       old_addr |-> row[2],
                                       new_addr |-> row[3],
                                       hunk_list |-> <<>>])]
              /\ headers' = <<>>
              /\ emitted' = emitted
              /\ pc' = "parsing"]_vars

\* a hunk was opened from "-1,2 +3" with a pending header
C8_Witness ==
    /\ last.line = M_ShortNew
    /\ diff.hunks # <<>>
    /\ LastHunk(diff).hunk_headers = <<L_Hdr>>
    /\ LastHunk(diff).old_addr = <<1, 2>>
    /\ LastHunk(diff).new_addr = <<3, 1>>
    /\ headers = <<>>

(***************************************************************************)
(* C9.                                                                     *)
(***************************************************************************)
\* the step taken when the stream is exhausted
EndStep == pc = "parsing" /\ pc' # "parsing" /\ input' = input

\* C9: at end of input with old_path set, a missing new_path or an empty
\* line list in the last hunk raises the internal-consistency error and the
\* in-progress Diff is not yielded; otherwise it is yielded once. With
\* old_path unset it is not yielded.
C9_EndOfInput ==
    [][EndStep =>
          IF diff.old_path \notin {None, <<>>}
          THEN IF \/ diff.new_path = None
                  \/ diff.hunks # <<>> /\ LastHunk(diff).hunk_list = <<>>
               THEN pc' = "AssertionError" /\ emitted' = emitted
               ELSE /\ pc' = "done"
                    /\ emitted' \in {Append(emitted, diff),
                                     emitted \o <<diff, HeaderDiff(headers)>>}
          ELSE /\ pc' = "done"
               /\ emitted' \in {emitted, Append(emitted, HeaderDiff(headers))}]_vars

\* the input ended right after a hunk meta
C9_Witness ==
    /\ pc = "AssertionError"
    /\ diff.new_path # None
    /\ diff.hunks # <<>>
    /\ LastHunk(diff).hunk_list = <<>>

(***************************************************************************)
(* C10.                                                                    *)
(***************************************************************************)
RECURSIVE AllHeaders(_)
\* the headers of a sequence of Diffs, in order
AllHeaders(ds) ==
    IF ds = <<>> THEN <<>> ELSE ds[1].headers \o AllHeaders(Tail(ds))

\* the parse ended without error, emitted header-only Diffs only, and their
\* headers are the input
AllShownAsHeaders ==
    /\ pc = "done"
    /\ \A i \in 1..Len(emitted) : HeaderOnly(emitted[i])
    /\ AllHeaders(emitted) = input

\* C10 (as claimed): a stream the sniffer classifies as unknown is parsed to
\* its end without error, and every line of it is emitted as a header of a
\* header-only Diff.
C10_UnknownAllHeaders ==
    (pc # "parsing" /\ DetectFormat(input).warned) => AllShownAsHeaders

\* no "--- " line, no hunk-meta line and no end-of-file marker
NoDiffSyntax(stream) ==
    \A i \in 1..Len(stream) :
        /\ ~StartsWith(stream[i], OldPathPrefix)
        /\ ~is_hunk_meta(stream[i])
        /\ ~StartsWith(stream[i], EofPrefix)

\* C10 (amended): the same, for the unknown streams that hold no "--- "
\* line, no hunk-meta line and no "\ No newline at end of" marker.
C10_UnknownPlainAllHeaders ==
    (pc # "parsing" /\ DetectFormat(input).warned /\ NoDiffSyntax(input))
        => AllShownAsHeaders

\* an unknown stream of plain lines ended with a marker Diff and a dangling
\* headers Diff emitted
C10_Witness ==
    /\ pc = "done"
    /\ DetectFormat(input).warned
    /\ NoDiffSyntax(input)
    /\ Len(input) >= 4
    /\ Len(emitted) = 2
    /\ \E i \in 1..Len(input) : input[i] = L_NewPath
    /\ \E i \in 1..Len(input) : input[i] = L_Del

(***************************************************************************)
(* C11.                                                                    *)
(***************************************************************************)
\* the first min(StreamHeaderSize, N) lines of an N-line stream
Window(stream) ==
    SubSeq(stream, 1,
           IF Len(stream) < StreamHeaderSize THEN Len(stream) ELSE StreamHeaderSize)

\* a line without its line end "\n"
Chomp(line) ==
    IF line # <<>> /\ line[Len(line)] = "\n"
    THEN SubSeq(line, 1, Len(line) - 1)
    ELSE line

\* the context pattern on the window w, the text of lines 2 and 3 taken by
\* text(_)
ContextPattern(w, text(_)) ==
    /\ Len(w) >= 4
    /\ StartsWith(w[1], ContextStars)
    /\ StartsWith(w[2], OldPathPrefix)
    /\ text(w[3]) = ContextSeparator
    /\ StartsWith(w[4], ContextStars)
    /\ EndsWith(text(w[4]), ContextTail)

\* some line i of the window starts with "--- " and line i + 1, in the window
\* too, starts with "+++ "
PairPattern(w) ==
    \E i \in 1..(Len(w) - 1) :
        StartsWith(w[i], OldPathPrefix) /\ StartsWith(w[i + 1], NewPathPrefix)

\* the class the rules give, in their order
RuleClass(w, text(_)) ==
    IF ContextPattern(w, text) THEN "context"
    ELSE IF PairPattern(w) THEN "unified"
    ELSE "unknown"

\* what DiffParser.__init__ decided, in the words of the rules
Decided ==
    IF ptype = "context" THEN "context"
    ELSE IF warned THEN "unknown"
    ELSE "unified"

\* C11 (as claimed): once the parser is constructed, the class it decided is
\* the class the rules give on the first min(100, N) lines, line 2 being
\* exactly 15 "*" and line 3 ending with " ****"; unknown is handled as
\* unified with the warning, and the filter is started in the context case
\* only.
C11_ClassifiedExactLines ==
    ptype # "none" =>
        /\ Decided = RuleClass(Window(source), Chomp)
        /\ warned => ptype = "unified"
        /\ translator <=> ptype = "context"

\* C11 (amended): the same, lines 2 and 3 being compared after their trailing
\* whitespace is removed.
C11_ClassifiedStripped ==
    ptype # "none" =>
        /\ Decided = RuleClass(Window(source), RStrip)
        /\ warned => ptype = "unified"
        /\ translator <=> ptype = "context"

\* a stream whose context head ends its separator line with "\r\n" and which
\* also holds a "--- " / "+++ " pair was classified as context
C11_Witness ==
    /\ ptype = "context"
    /\ translator
    /\ source[3] = S_SepCrLf
    /\ PairPattern(Window(source))

(***************************************************************************)
(* C12.                                                                    *)
(***************************************************************************)
\* s is a prefix of t
IsPrefix(s, t) == Len(s) <= Len(t) /\ SubSeq(t, 1, Len(s)) = s

\* C12: whatever look-ahead was made (none, read_stream_header(n), or the
\* parser's), the lines the iteration has yielded are at every moment the
\* first lines of the underlying stream, unmodified and in order, and when
\* the iteration stops they are all of them; the pass-through loop of main
\* writes the yielded lines, and writes nothing for the empty stream.
C12_IterationYieldsStream ==
    /\ IsPrefix(yielded, source)
    /\ spc = "stopped" => yielded = source
    /\ is_empty => source = <<>>

\* a full iteration after a look-ahead of two lines of a longer stream:
\* buffered lines were replayed and the rest read from the handle
C12_Witness ==
    /\ spc = "stopped"
    /\ ahead = 2
    /\ Len(stream_header) = 2
    /\ Len(source) >= 4
    /\ yielded = source

(***************************************************************************)
(* C13.                                                                    *)
(***************************************************************************)
\* the forwarder is inside _in.write and the pipe to the filter is full
ForwarderBlocked == fpc = "write" /\ Len(in_pipe) = cap_in

\* the filter is inside a write and the pipe from the filter is full
FilterBlocked == filter = "write" /\ Len(out_pipe) = cap_out

\* C13 (as claimed): in no reachable state is the forwarder blocked writing a
\* line into the filter's full input pipe while the filter is blocked writing
\* into its full output pipe.
C13_NoPipeDeadlock == ~(ForwarderBlocked /\ FilterBlocked)

(***************************************************************************)
(* C14.                                                                    *)
(***************************************************************************)
\* a step that is one iteration of the forwarder's loop: the forwarder is at
\* the poll, and the step is none of the filter's
LoopIteration ==
    /\ fpc = "poll"
    /\ held' = held
    /\ filter' = filter
    /\ vars' # vars

\* the step writes nothing to the filter and leaves its input as it is
NoWrite ==
    /\ istream' = istream
    /\ in_pipe' = in_pipe
    /\ in_hand' = in_hand
    /\ in_closed' = in_closed

\* the step reads nothing from the filter and does not end the loop
NoRead ==
    /\ forwarded' = forwarded
    /\ out_pipe' = out_pipe
    /\ fpc' # "done"

\* C14: every iteration of the loop finds output ready exactly when a line or
\* the end of file is in the filter's output pipe, and then does one thing:
\* (a) ready: it reads one line and yields it, or ends the loop at end of
\* file, and writes nothing; (b) not ready, input open: it takes exactly one
\* upstream line and writes it to the filter, or closes the filter's input if
\* no line is left, and reads nothing; (c) not ready, input closed: nothing.
C14_OneOperationPerIteration ==
    [][LoopIteration =>
        LET ready == out_pipe # <<>> \/ out_closed
        IN  /\ lastop'.ready = ready
            /\ ready =>
                 /\ NoWrite
                 /\ IF out_pipe # <<>>
                    THEN /\ forwarded' = Append(forwarded, Head(out_pipe))
                         /\ out_pipe' = Tail(out_pipe)
                         /\ fpc' = "poll"
                    ELSE /\ forwarded' = forwarded
                         /\ out_pipe' = out_pipe
                         /\ fpc' = "done"
            /\ (~ready /\ ~in_closed) =>
                 /\ NoRead
                 /\ IF istream # <<>>
                    THEN /\ istream' = Tail(istream)
                         /\ in_pipe' \o in_hand' = Append(in_pipe, Head(istream))
                         /\ in_closed' = FALSE
                    ELSE /\ in_closed' = TRUE
                         /\ UNCHANGED <<istream, in_pipe, in_hand>>
            /\ (~ready /\ in_closed) => NoRead /\ NoWrite]_vars

\* lines were written and read back, the input was closed, and the latest
\* iteration found nothing to do
C14_Witness ==
    /\ lastop = [ready |-> FALSE, did |-> "nothing"]
    /\ in_closed
    /\ Len(forwarded) >= 2
    /\ Len(forwarded) < MaxUp
    /\ fpc = "poll"

(***************************************************************************)
(* C15.                                                                    *)
(***************************************************************************)
\* the length of the known escape sequence s starts with, 0 when it starts
\* with none
EscapeLen(s) ==
    IF \E i \in 1..Len(COLORS) : StartsWith(s, COLORS[i].code)
    THEN Len(COLORS[CHOOSE i \in 1..Len(COLORS) : StartsWith(s, COLORS[i].code)].code)
    ELSE 0

\* s without its escape sequences
RECURSIVE Visible(_)
Visible(s) ==
    IF s = <<>> THEN <<>>
    ELSE IF EscapeLen(s) > 0 THEN Visible(Slice(s, EscapeLen(s)))
    ELSE <<Head(s)>> \o Visible(Tail(s))

\* s holds whole escape sequences only: each "ESC" of it starts one
WholeEscapes(s) == \A i \in 1..Len(Visible(s)) : Visible(s)[i] # "ESC"

\* C15: strsplit(text, w) = (first, second, n) cuts inside no escape
\* sequence (first and second hold whole ones only), n = min(w, visible
\* length of text) is the number of visible characters of first, and the
\* visible characters of first followed by those of second are those of
\* text.
C15_StrsplitEscapeSafe ==
    split # <<>> =>
        /\ WholeEscapes(split[1])
        /\ WholeEscapes(split[2])
        /\ split[3] = IF split_width < Len(Visible(split_text))
                      THEN split_width ELSE Len(Visible(split_text))
        /\ Len(Visible(split[1])) = split[3]
        /\ Visible(split[1]) \o Visible(split[2]) = Visible(split_text)

\* a text was cut between two visible characters while a color was open: the
\* cut closed the color in first and reopened it in second
C15_Witness ==
    /\ split # <<>>
    /\ split[3] >= 1
    /\ Visible(split[2]) # <<>>
    /\ EndsWith(split[1], Color("reset"))
    /\ StartsWith(split[2], Color("lightred"))
    /\ split[1] \o split[2] # split_text

(***************************************************************************)
(* C16.                                                                    *)
(***************************************************************************)
\* the marked-up cells of the row, before they are wrapped or trimmed
RowCells == Cells(sbs_row, TabWidth)

\* the visible characters of the left and of the right cell of the row
VisLeft == Visible(RowCells[1])

VisRight == Visible(RowCells[2])

\* the number of visible characters of the longer cell
LongerLen == IF Len(VisLeft) >= Len(VisRight) THEN Len(VisLeft) ELSE Len(VisRight)

\* what the gutters of the first output line of the row show
FirstGutters ==
    <<RJust(RowNum(sbs_hunks[hunk_at].old_addr, sbs_row.old[1]), num_width),
      RJust(RowNum(sbs_hunks[hunk_at].new_addr, sbs_row.new[1]), num_width)>>

\* C16: in wrap mode with column width w >= 1, a row whose cells have L and R
\* visible characters is emitted as max(1, ceil(max(L, R) / w)) lines; each
\* cell of each line holds at most w visible characters; every line but the
\* last holds the next w visible characters of the longer cell; the first
\* line carries the line numbers in its gutters, the later lines have blank
\* gutters.
C16_WrapRowLines ==
    (mpc = "rowdone" /\ wrap) =>
        LET w == col_width
            n == Len(out_lines)
        IN  /\ n = IF LongerLen = 0 THEN 1 ELSE (LongerLen + w - 1) \div w
            /\ \A i \in 1..n :
                   /\ Len(Visible(out_lines[i].left)) <= w
                   /\ Len(Visible(out_lines[i].right)) <= w
            /\ \A i \in 1..(n - 1) :
                   /\ Len(VisLeft) = LongerLen =>
                          Visible(out_lines[i].left)
                              = SubSeq(VisLeft, (i - 1) * w + 1, i * w)
                   /\ Len(VisRight) = LongerLen =>
                          Visible(out_lines[i].right)
                              = SubSeq(VisRight, (i - 1) * w + 1, i * w)
            /\ <<out_lines[1].left_num, out_lines[1].right_num>> = FirstGutters
            /\ \A i \in 2..n :
                   /\ out_lines[i].left_num = Spaces(num_width)
                   /\ out_lines[i].right_num = Spaces(num_width)

\* a row with 5 visible characters on the left and fewer on the right was
\* wrapped at width 2 into 3 lines
C16_Witness ==
    /\ mpc = "rowdone"
    /\ wrap
    /\ col_width = 2
    /\ Len(VisLeft) = 5
    /\ Len(VisRight) \in 1..4
    /\ Len(out_lines) = 3
    /\ out_lines[1].left_num # Spaces(num_width)

(***************************************************************************)
(* C17.                                                                    *)
(***************************************************************************)
\* a color is open at the end of s: its last escape sequence is not reset
RECURSIVE ColorOpen(_, _)
ColorOpen(s, open) ==
    IF s = <<>> THEN open
    ELSE IF EscapeLen(s) > 0
         THEN ColorOpen(Slice(s, EscapeLen(s)), ~StartsWith(s, Color("reset")))
         ELSE ColorOpen(Tail(s), open)

\* cell is kept text with every color closed, followed by the truncation
\* marker
ClosedBeforeMarker(cell) ==
    /\ EndsWith(cell, WrapChar)
    /\ ~ColorOpen(SubSeq(cell, 1, Len(cell) - Len(WrapChar)), FALSE)

\* the first w - 1 of the visible characters v, and the marker's ">"
Truncated(v, w) == SubSeq(v, 1, w - 1) \o <<">">>

\* C17: in truncate mode with column width w >= 1, each row is emitted as one
\* line; a cell with more than w visible characters shows its first w - 1
\* visible characters and the marker, with no color of the kept part left
\* open before the marker; a cell with at most w keeps all of them; the left
\* cell is padded with spaces to w visible characters iff it is not truncated
\* and the right cell is not empty; the right cell is never padded.
C17_TrimRowLine ==
    (mpc = "rowdone" /\ ~wrap) =>
        LET w == col_width
            lt == Len(VisLeft) > w
            rt == Len(VisRight) > w
            padded == ~lt /\ RowCells[2] # <<>>
        IN  /\ Len(out_lines) = 1
            /\ Visible(out_lines[1].left)
                   = IF lt THEN Truncated(VisLeft, w)
                     ELSE IF padded THEN VisLeft \o Spaces(w - Len(VisLeft))
                     ELSE VisLeft
            /\ Visible(out_lines[1].right)
                   = IF rt THEN Truncated(VisRight, w) ELSE VisRight
            /\ lt => ClosedBeforeMarker(out_lines[1].left)
            /\ rt => ClosedBeforeMarker(out_lines[1].right)

\* a row whose left cell was truncated and whose right cell is shorter than
\* the column
C17_Witness ==
    /\ mpc = "rowdone"
    /\ ~wrap
    /\ col_width = 2
    /\ Len(VisLeft) > 2
    /\ Len(VisRight) = 1
    /\ Len(out_lines) = 1
    /\ Len(Visible(out_lines[1].left)) = 2
    /\ Len(Visible(out_lines[1].right)) = 1

(***************************************************************************)
(* C18.                                                                    *)
(***************************************************************************)
\* the largest line number of a hunk: start + count - 1 of its old or of its
\* new address
HunkLargest(hunk) ==
    LET o == hunk.old_addr[1] + hunk.old_addr[2] - 1
        n == hunk.new_addr[1] + hunk.new_addr[2] - 1
    IN  IF o > n THEN o ELSE n

\* the largest line number over the hunks of a non-empty hunk list
Largest(hunks) ==
    CHOOSE m \in {HunkLargest(hunks[i]) : i \in 1..Len(hunks)} :
        \A i \in 1..Len(hunks) : HunkLargest(hunks[i]) <= m

\* C18 (as claimed): the gutter width of a Diff is the number of decimal
\* digits of the largest line number over all its hunks, and the line
\* numbers shown for a row fit in the gutter.
C18_GutterIsDigitsOfLargest ==
    /\ (mpc \notin {"idle", "setup"} /\ sbs_hunks # <<>>) =>
           num_width = Len(Str(Largest(sbs_hunks)))
    /\ mpc = "rowdone" =>
           /\ Len(out_lines[1].left_num) = num_width
           /\ Len(out_lines[1].right_num) = num_width

(***************************************************************************)
(* C19.                                                                    *)
(***************************************************************************)
\* C19: every emitted Diff with at least one hunk has old_path set to a
\* "--- " line and new_path set to a "+++ " line, whichever of the three
\* emission points emitted it.
C19_EmittedWithHunksHasPaths ==
    \A i \in 1..Len(emitted) :
        emitted[i].hunks # <<>> =>
            /\ is_old_path(emitted[i].old_path)
            /\ is_new_path(emitted[i].new_path)

\* a Diff with a hunk was emitted at end of input
C19_Witness ==
    /\ pc = "done"
    /\ last.branch = "end"
    /\ last.yields >= 1
    /\ Truthy(diff.old_path)
    /\ diff.hunks # <<>>
    /\ diff \in {emitted[i] : i \in 1..Len(emitted)}

(***************************************************************************)
(* C20.                                                                    *)
(***************************************************************************)
\* the code after the loop has run (it leaves diff and headers as they were)
AtEnd == last.branch = "end"

\* what the code after the loop emitted: the last.yields last Diffs
EmittedAtEnd == SubSeq(emitted, Len(emitted) - last.yields + 1, Len(emitted))

\* the in-progress Diff when it is emitted at end of input, then the pending
\* headers as one header-only Diff when there are any
ExpectedAtEnd ==
    (IF Truthy(diff.old_path) THEN <<diff>> ELSE <<>>)
        \o (IF headers # <<>> THEN <<HeaderDiff(headers)>> ELSE <<>>)

\* C20 (as claimed): at end of input a non-empty pending headers buffer is
\* emitted as exactly one final header-only Diff with the buffered lines in
\* order, after the in-progress Diff when that one is emitted, and an empty
\* buffer emits no header-only Diff; no buffered header line is lost.
C20_PendingHeadersEmitted ==
    AtEnd =>
        IF headers # <<>>
        THEN /\ last.yields \in {1, 2}
             /\ LastEmitted = HeaderDiff(headers)
             /\ last.yields = 2 => emitted[Len(emitted) - 1] = diff
             /\ \A i \in 1..Len(EmittedAtEnd) - 1 : ~HeaderOnly(EmittedAtEnd[i])
        ELSE \A i \in 1..Len(EmittedAtEnd) : ~HeaderOnly(EmittedAtEnd[i])

\* C20 (amended): when the code after the loop raises no AssertionError it
\* emits the in-progress Diff if old_path is set, then the pending headers as
\* exactly one header-only Diff if the buffer is not empty, and nothing else;
\* when it raises, it emits nothing and the buffered headers are dropped.
C20_PendingHeadersEmittedUnlessRaised ==
    AtEnd =>
        IF pc = "done"
        THEN EmittedAtEnd = ExpectedAtEnd
        ELSE pc = "AssertionError" /\ last.yields = 0

\* end of input emitted the in-progress Diff and then the pending headers
C20_Witness ==
    /\ AtEnd
    /\ pc = "done"
    /\ headers # <<>>
    /\ last.yields = 2
    /\ LastEmitted = HeaderDiff(headers)

(***************************************************************************)
(* C21.                                                                    *)
(***************************************************************************)
\* no hunk of d holds more old-side or new-side lines than its meta declares
NotOverfull(d) ==
    \A i \in 1..Len(d.hunks) :
        /\ NotTagged(d.hunks[i], "+") <= d.hunks[i].old_addr[2]
        /\ NotTagged(d.hunks[i], "-") <= d.hunks[i].new_addr[2]

\* C21 (as claimed): once the last hunk of the open Diff holds its declared
\* old-side and new-side counts, a step that keeps the hunk leaves its line
\* list as it is; and no hunk ever holds more old-side or new-side lines than
\* its address declares.
C21_AppendOnlyUntilComplete ==
    [][/\ (/\ diff.hunks # <<>>
           /\ Complete(LastHunk(diff))
           /\ Len(diff'.hunks) >= Len(diff.hunks))
          => diff'.hunks[Len(diff.hunks)] = LastHunk(diff)
       /\ NotOverfull(diff')]_vars

(***************************************************************************)
(* C22.                                                                    *)
(***************************************************************************)
\* the step reads the line "\ No newline at end of file"
ReadsEofMarker ==
    /\ Len(input') = Len(input) + 1
    /\ input'[Len(input')] = L_Eof

\* C22: a "\ No newline at end of ..." marker line changes nothing, in any
\* parser state: the open Diff with its hunks and their lines, the pending
\* headers and the Diffs emitted so far are the same before and after it.
C22_EofMarkerChangesNothing ==
    [][ReadsEofMarker => UNCHANGED <<diff, headers, emitted>>]_vars

\* the marker was read with a hunk open and with headers pending
C22_Witness ==
    /\ last.branch = "eof"
    /\ last.line = L_Eof
    /\ diff.hunks # <<>>
    /\ LastHunk(diff).hunk_list # <<>>
    /\ headers # <<>>

(***************************************************************************)
(* C23.                                                                    *)
(***************************************************************************)
\* the line the step reads
LineRead == input'[Len(input')]

\* the step reads a line whose first character is "-", "+" or " " and which
\* is no "--- " or "+++ " line
ReadsTagged ==
    /\ Len(input') = Len(input) + 1
    /\ LineRead[1] \in {"-", "+", " "}
    /\ ~StartsWith(LineRead, OldPathPrefix)
    /\ ~StartsWith(LineRead, NewPathPrefix)

\* C23: a line tagged old, new or common is appended to the current hunk
\* only when a hunk exists and the pending headers buffer is empty; when the
\* buffer is not empty or there is no hunk, the line is added to the buffer
\* and nothing else changes; and a non-empty buffer is emptied only by a
\* hunk-meta line, an old-path line or a standalone marker.
C23_BodyLineBehindHeaders ==
    [][/\ ReadsTagged =>
              /\ diff' # diff =>
                     /\ diff.hunks # <<>>
                     /\ headers = <<>>
                     /\ diff' = WithLine(diff, LineRead[1], Tail(LineRead))
                     /\ headers' = headers
              /\ (headers # <<>> \/ diff.hunks = <<>>) =>
                     /\ headers' = Append(headers, LineRead)
                     /\ UNCHANGED <<diff, emitted>>
       /\ (headers # <<>> /\ headers' = <<>>) =>
              LineRead \in {L_OldPath, L_Meta, L_OnlyIn}]_vars

\* a body line was buffered behind an unrecognised line inside a hunk
C23_Witness ==
    /\ last.branch = "headers"
    /\ last.line \in {L_Del, L_Add, L_Ctx}
    /\ diff.hunks # <<>>
    /\ LastHunk(diff).hunk_list # <<>>
    /\ Len(headers) >= 2
    /\ headers[1] = L_Hdr

(***************************************************************************)
(* C24.                                                                    *)
(***************************************************************************)
\* the Hunk objects of the UnifiedDiff object d
HunksOf(d) == {lists[diff_objs[d].hunks][i] : i \in 1..Len(lists[diff_objs[d].hunks])}

\* the list objects of the UnifiedDiff object d: its header list, its hunk
\* list, and the header list and line list of each of its Hunks
ListsOf(d) ==
    {diff_objs[d].headers, diff_objs[d].hunks}
        \cup {hunk_objs[h].hunk_headers : h \in HunksOf(d)}
        \cup {hunk_objs[h].hunk_list : h \in HunksOf(d)}

\* the UnifiedDiff objects d and e share no Hunk and no list
Apart(d, e) ==
    /\ d # e
    /\ HunksOf(d) \cap HunksOf(e) = {}
    /\ ListsOf(d) \cap ListsOf(e) = {}

\* C24: a yielded Diff is never changed: its headers, paths, hunk list and
\* every hunk's header list and line list are what they were when it was
\* yielded; no list or hunk is shared between two yielded Diffs, or between
\* a yielded Diff and the generator's open Diff or pending headers list.
C24_YieldedDiffNeverChanges ==
    /\ \A i \in 1..Len(handed) :
           DiffValue(lists, hunk_objs, diff_objs, handed[i].ref) = handed[i].seen
    /\ \A i, j \in 1..Len(handed) :
           i < j => Apart(handed[i].ref, handed[j].ref)
    /\ rpc = "parsing" =>
           \A i \in 1..Len(handed) :
               /\ Apart(handed[i].ref, rdiff)
               /\ rheaders \notin ListsOf(handed[i].ref)

\* a Diff with a hunk and a header-only Diff were yielded, and a line read
\* after them went to the pending headers
C24_Witness ==
    /\ rpc = "parsing"
    /\ Len(handed) = 2
    /\ handed[1].seen.hunks # <<>>
    /\ handed[2].seen.headers # <<>>
    /\ CurHeaders # <<>>

(***************************************************************************)
(* C25.                                                                    *)
(***************************************************************************)
\* C25: the lines passed to the filter are the upstream lines, each once and
\* in order; the filter's input is closed at most once, only when every
\* upstream line has been written and no write is under way; nothing is
\* written after the close; and a forwarder that has returned has written
\* every line and closed the input.
C25_ForwardsEveryLineOnce ==
    [][/\ IsPrefix(pipelog'.written, pipelog'.upstream)
       /\ pipelog'.closes <= 1
       /\ in_closed' <=> pipelog'.closes = 1
       /\ pipelog'.closes = 1 =>
              /\ pipelog'.written = pipelog'.upstream
              /\ in_hand' = <<>>
       /\ in_closed => pipelog'.written = pipelog.written
       /\ fpc' = "done" =>
              /\ pipelog'.written = pipelog'.upstream
              /\ pipelog'.closes = 1]_vars

\* all of MaxUp upstream lines were written and the input was closed, with
\* lines still in the pipe to the filter
C25_Witness ==
    /\ Len(pipelog.upstream) = MaxUp
    /\ pipelog.written = pipelog.upstream
    /\ pipelog.closes = 1
    /\ in_closed
    /\ in_pipe # <<>>

(***************************************************************************)
(* C26.                                                                    *)
(***************************************************************************)
\* the forwarder has returned, on an empty read, having yielded the lines
\* the filter wrote, each once and in order, none of them left in the pipe
ReturnedWithAllOutput ==
    /\ fpc = "done"
    /\ lastop = [ready |-> TRUE, did |-> "return"]
    /\ forwarded = pipelog.produced
    /\ out_pipe = <<>>

\* C26 (as claimed): under fairness the forwarder loop eventually
\* terminates, and it terminates only on an empty read, with every line the
\* filter wrote yielded once and in order and no output of the filter unread.
C26_TerminatesWithAllOutput ==
    /\ <>(fpc = "done")
    /\ [](fpc = "done" => ReturnedWithAllOutput)

(***************************************************************************)
(* C27.                                                                    *)
(***************************************************************************)
\* the step is an iteration of the wrapping loop
WrapIteration == mpc = "wrap" /\ out_lines' # out_lines

\* C27 (as claimed): with an explicit positive width or with the width
\* autodetected for any number of terminal columns, each iteration of the
\* wrapping loop leaves fewer visible characters in every cell that had
\* some, and leaves no cell holding color codes only; so the loop terminates.
C27_WrapLoopShrinksCells ==
    [][WrapIteration =>
           /\ Visible(left) # <<>> => Len(Visible(left')) < Len(Visible(left))
           /\ Visible(right) # <<>> => Len(Visible(right')) < Len(Visible(right))
           /\ left' # <<>> => Visible(left') # <<>>
           /\ right' # <<>> => Visible(right') # <<>>]_vars

(***************************************************************************)
(* C28.                                                                    *)
(***************************************************************************)
\* the attributes a terminal shows text in after a reset
NoAttrs == [fg |-> "", bold |-> FALSE, underline |-> FALSE, reverse |-> FALSE]

\* the attributes after the escape sequence "code" (ESC [ parameters m) is
\* read in the attributes a: 0 resets, 4 underlines, 7 reverses, 3x sets the
\* foreground color x, 1;3x sets bold and the foreground color x
Apply(a, code) ==
    LET d == SubSeq(code, 3, Len(code) - 1)
    IN  IF d = <<"0">> THEN NoAttrs
        ELSE IF d = <<"4">> THEN [a EXCEPT !.underline = TRUE]
        ELSE IF d = <<"7">> THEN [a EXCEPT !.reverse = TRUE]
        ELSE IF Len(d) = 2 THEN [a EXCEPT !.fg = d[2]]
        ELSE [a EXCEPT !.bold = TRUE, !.fg = d[4]]

\* the visible characters of s, each with the attributes it is shown in,
\* when s is written to a terminal whose attributes are a
RECURSIVE Styled(_, _)
Styled(s, a) ==
    IF s = <<>> THEN <<>>
    ELSE IF EscapeLen(s) > 0
         THEN Styled(Slice(s, EscapeLen(s)), Apply(a, SubSeq(s, 1, EscapeLen(s))))
         ELSE <<<<Head(s), a>>>> \o Styled(Tail(s), a)

\* the attributes in effect after s is written to a terminal in attributes a
RECURSIVE AttrsAfter(_, _)
AttrsAfter(s, a) ==
    IF s = <<>> THEN a
    ELSE IF EscapeLen(s) > 0
         THEN AttrsAfter(Slice(s, EscapeLen(s)), Apply(a, SubSeq(s, 1, EscapeLen(s))))
         ELSE AttrsAfter(Tail(s), a)

\* the codes of s that follow its last reset, in order (acc: those so far)
RECURSIVE OpenCodes(_, _)
OpenCodes(s, acc) ==
    IF s = <<>> THEN acc
    ELSE IF EscapeLen(s) > 0
         THEN OpenCodes(Slice(s, EscapeLen(s)),
                        IF StartsWith(s, Color("reset")) THEN <<>>
                        ELSE Append(acc, SubSeq(s, 1, EscapeLen(s))))
         ELSE OpenCodes(Tail(s), acc)

\* the sequences of codes cs and ds hold the same codes, each as often
SameCodes(cs, ds) ==
    /\ Len(cs) = Len(ds)
    /\ \A i \in 1..Len(cs) :
           Len(SelectSeq(cs, LAMBDA c : c = cs[i]))
               = Len(SelectSeq(ds, LAMBDA c : c = cs[i]))

\* C28 (as claimed): strsplit(text, w) = (first, second, n) cuts text into a
\* consumed part and a rest; when codes are open at the cut (seen in the
\* consumed part since its last reset), first is the consumed part and a
\* reset, and second is exactly those codes and then the rest, and second's
\* visible characters are shown in the attributes they have in text (a
\* later code overriding an earlier one); when no code is open, first is the
\* consumed part and second is the rest.
C28_ColorCarryOver ==
    split # <<>> =>
        \E k \in 0..Len(split_text) :
            LET consumed == SubSeq(split_text, 1, k)
                rest == SubSeq(split_text, k + 1, Len(split_text))
                open == OpenCodes(consumed, <<>>)
                pre == SubSeq(split[2], 1, Len(split[2]) - Len(rest))
            IN  IF open # <<>>
                THEN /\ split[1] = consumed \o Color("reset")
                     /\ Len(split[2]) >= Len(rest)
                     /\ EndsWith(split[2], rest)
                     /\ Visible(pre) = <<>>
                     /\ SameCodes(OpenCodes(pre, <<>>), open)
                     /\ Styled(split[2], NoAttrs)
                            = Styled(rest, AttrsAfter(consumed, NoAttrs))
                ELSE /\ split[1] = consumed
                     /\ split[2] = rest

====
